---------------------------- MODULE Spec2Model ----------------------------
(***************************************************************************)
(* Forward-curve builder, ensemble forecaster and forecast-accuracy store  *)
(* of the pulp market hub (src/src/math, src/src/db, src/src/scheduler.py).*)
(*                                                                         *)
(* Dates are day numbers (integers); prices are whole dollars.  The SLSQP  *)
(* solver and the ARIMA fit are library code: they are modelled by their   *)
(* contract, as a nondeterministic choice among the results they may give. *)
(***************************************************************************)
EXTENDS Integers, Sequences, FiniteSets, TLC

VARIABLES
    cv_pc,      \* curve builder: "input" | "done"
    cv_in,      \* curve builder: arguments of the call
    cv_out,     \* curve builder: what build_curve gave back
    en_pc,      \* ensemble: "new" | "ready" | "ctor_raised" | "returned" | "raised"
    en_in,      \* ensemble: constructor arguments and the arguments of forecast
    en_self,    \* ensemble: the forecaster's fields after __init__
    en_run,     \* ensemble: the locals of forecast (components, weights, sum)
    en_out,     \* ensemble: the EnsembleForecastResult, or the error raised
    ac_today,     \* accuracy store: date.today(), as a day number
    ac_forecasts, \* accuracy store: the forecast_accuracy rows, in insertion order
    ac_realized,  \* accuracy store: the realized_prices rows, by <<date, product>>
    ac_last,      \* accuracy store: the last operation and what it met
    sc_pc,        \* scheduler: position and locals of each run
    sc_snapshots, \* scheduler: the fact_market_snapshot rows, in insertion order
    sc_history    \* scheduler: _job_history

cvVars == <<cv_pc, cv_in, cv_out>>
enVars == <<en_pc, en_in, en_self, en_run, en_out>>
acVars == <<ac_today, ac_forecasts, ac_realized, ac_last>>
scVars == <<sc_pc, sc_snapshots, sc_history>>
vars == <<cv_pc, cv_in, cv_out, en_pc, en_in, en_self, en_run, en_out,
          ac_today, ac_forecasts, ac_realized, ac_last,
          sc_pc, sc_snapshots, sc_history>>

-----------------------------------------------------------------------------
(* Bounds of the model *)

\* last day number (relative to the spot date) a contract of the model ends on
MaxDay == 2
\* longest contract list handed to build_curve
MaxContracts == 2

\* daily prices the solver searches over (a lattice standing for the reals)
PriceGrid == {700, 800, 900, 1000, 1100, 1200}

-----------------------------------------------------------------------------
(* Arithmetic helpers *)

Min2(a, b) == IF a <= b THEN a ELSE b
Max2(a, b) == IF a >= b THEN a ELSE b

RECURSIVE SumRange(_, _, _)
\* sum of x[s..e] of a function over integers: np.sum / np.mean numerator
SumRange(x, s, e) ==
    IF s > e THEN 0
    ELSE IF s = e THEN x[s]
    ELSE LET m == (s + e) \div 2
         IN  SumRange(x, s, m) + SumRange(x, m + 1, e)

RECURSIVE MaxOfSeq(_, _)
MaxOfSeq(f, n) == IF n = 1 THEN f[1] ELSE Max2(f[n], MaxOfSeq(f, n - 1))

-----------------------------------------------------------------------------
(* src/src/math/spline.py : SplineBounds, MaximumSmoothnessSpline           *)

\* SplineBounds() defaults
DefaultMinPrice == 800
DefaultMaxPrice == 2500
DefaultBounds == [min_price |-> DefaultMinPrice, max_price |-> DefaultMaxPrice]

\* the 400-day cap of the curve
CapDays == 400

RECURSIVE InsertByStart(_, _)
\* insert c into a list sorted by start_date, after the entries that start
\* on the same day (sorted() is stable)
InsertByStart(s, c) ==
    IF s = <<>> THEN <<c>>
    ELSE IF Head(s).start_date <= c.start_date
         THEN <<Head(s)>> \o InsertByStart(Tail(s), c)
         ELSE <<c>> \o s

RECURSIVE SortByStart(_)
\* sorted(contracts, key=lambda x: x.start_date)
SortByStart(s) ==
    IF s = <<>> THEN <<>>
    ELSE InsertByStart(SortByStart(SubSeq(s, 1, Len(s) - 1)), s[Len(s)])

\* mutant of CurveMaxDate: the latest end_date, without the cap
CurveMaxDate_uncapped(spot_date, contracts) ==
    MaxOfSeq([i \in 1..Len(contracts) |-> contracts[i].end_date], Len(contracts))

\* max(c.end_date for c in contracts), capped at spot_date + 400 days
CurveMaxDate(spot_date, contracts) ==
    LET max_date == MaxOfSeq([i \in 1..Len(contracts) |-> contracts[i].end_date],
                             Len(contracts))
        max_horizon == spot_date + CapDays
    IN  IF max_date > max_horizon THEN max_horizon ELSE max_date

\* days_total = (max_date - spot_date).days + 1
DaysTotal(spot_date, contracts) == CurveMaxDate(spot_date, contracts) - spot_date + 1

\* the loop of "Constraint B": one [s_idx, e_idx, target] per contract that is
\* not skipped, indices clipped to 0 .. days_total-1
ContractConstraint(spot_date, days_total, c) ==
    LET start_idx == c.start_date - spot_date
        end_idx == c.end_date - spot_date
    IN  IF end_idx < 0 \/ start_idx >= days_total
        THEN <<>>
        ELSE <<[s_idx |-> IF start_idx < 0 THEN 0 ELSE start_idx,
                e_idx |-> IF end_idx >= days_total THEN days_total - 1 ELSE end_idx,
                target |-> c.price]>>

RECURSIVE BlockConstraints(_, _, _)
BlockConstraints(spot_date, days_total, contracts) ==
    IF contracts = <<>> THEN <<>>
    ELSE ContractConstraint(spot_date, days_total, Head(contracts))
         \o BlockConstraints(spot_date, days_total, Tail(contracts))

\* mutant of make_constraint: the slice x[s_idx : e_idx] leaves the last day out
make_constraint_exclusive(x, s_idx, e_idx, target_price) ==
    SumRange(x, s_idx, e_idx - 1) = target_price * (e_idx - s_idx)

\* make_constraint: np.mean(x[s_idx : e_idx + 1]) - target_price = 0
make_constraint(x, s_idx, e_idx, target_price) ==
    SumRange(x, s_idx, e_idx) = target_price * (e_idx - s_idx + 1)

\* mutant of price_bounds: no bounds handed to the solver
price_bounds_none(bounds) == PriceGrid

\* price_bounds: the admissible values of each daily price
price_bounds(bounds) ==
    {p \in PriceGrid : bounds.min_price <= p /\ p <= bounds.max_price}

\* objective: sum of squared discrete second differences
objective(x, n) ==
    LET d2[t \in 0..(n - 1)] ==
            IF t + 2 > n - 1 THEN 0
            ELSE (x[t] - 2 * x[t + 1] + x[t + 2]) * (x[t] - 2 * x[t + 1] + x[t + 2])
    IN  SumRange(d2, 0, n - 1)

\* np.mean(x[s_idx : e_idx + 1]) of an empty slice is nan
NanConstraint(con) == con.e_idx < con.s_idx

\* the points that satisfy constraints A and B and the bounds
Feasible(n, spot_price, cons, bounds) ==
    {x \in [0..(n - 1) -> price_bounds(bounds)] :
        /\ x[0] = spot_price
        /\ \A i \in 1..Len(cons) :
              make_constraint(x, cons[i].s_idx, cons[i].e_idx, cons[i].target)}

\* x0 = np.full(days_total, spot_price), clipped into the bounds by the solver
ClippedGuess(n, spot_price, bounds) ==
    [t \in 0..(n - 1) |->
        Max2(bounds.min_price, Min2(bounds.max_price, spot_price))]

\* scipy.optimize.minimize(method='SLSQP'): success means a feasible point of
\* least curvature; it may also stop without converging (always so when no
\* feasible point exists), and then result.x is an iterate
\* A constraint over an empty slice evaluates to nan at every point; what the
\* solver then reports is not defined by its contract, so it may fail or stop
\* with success at any point that meets the other constraints.
minimize(n, spot_price, cons, bounds) ==
    LET IsReal(con) == ~NanConstraint(con)
        real == SelectSeq(cons, IsReal)
        F == Feasible(n, spot_price, real, bounds)
    IN  (IF real = cons
         THEN {[success |-> TRUE, x |-> x] :
                 x \in {y \in F : \A z \in F : objective(y, n) <= objective(z, n)}}
         ELSE {[success |-> TRUE, x |-> x] : x \in F})
        \cup {[success |-> FALSE, x |-> ClippedGuess(n, spot_price, bounds)]}

NoCurve == <<>>

\* mutant of CurveOrRaise: the unconverged iterate is returned as the curve
CurveOrRaise_unchecked(result, spot_date) ==
    [kind |-> "curve", solver |-> IF result.success THEN "converged" ELSE "failed",
     error |-> "none",
     curve |-> [d \in {spot_date + t : t \in DOMAIN result.x} |-> result.x[d - spot_date]]]

\* "if not result.success: raise ValueError", else
\* pd.Series(data=curve, index=pd.to_datetime(date_range))
CurveOrRaise(result, spot_date) ==
    IF ~result.success
    THEN [kind |-> "raise", solver |-> "failed", error |-> "optimization_failed",
          curve |-> NoCurve]
    ELSE [kind |-> "curve", solver |-> "converged", error |-> "none",
          curve |-> [d \in {spot_date + t : t \in DOMAIN result.x} |->
                        result.x[d - spot_date]]]

\* build_curve: every result the call may give
build_curve(spot_date, spot_price, bounds, contracts) ==
    IF contracts = <<>>
    THEN {[kind |-> "empty", solver |-> "not_run", error |-> "none", curve |-> NoCurve]}
    ELSE LET sorted == SortByStart(contracts)
             days_total == DaysTotal(spot_date, sorted)
         IN  IF days_total < 0
             THEN \* np.full(days_total, ...) with a negative length
                  {[kind |-> "raise", solver |-> "not_run",
                    error |-> "negative_dimensions", curve |-> NoCurve]}
             ELSE IF days_total = 0
             THEN \* constraint A reads x[0] of an empty vector
                  {[kind |-> "raise", solver |-> "not_run",
                    error |-> "index_error", curve |-> NoCurve]}
             ELSE {CurveOrRaise(r, spot_date) :
                     r \in minimize(days_total, spot_price,
                                    BlockConstraints(spot_date, days_total, sorted),
                                    bounds)}

-----------------------------------------------------------------------------
(* Specification of the curve builder: the arguments are drawn in Init,    *)
(* BuildCurve is the call.                                                  *)

BoundsSet == {DefaultBounds, [min_price |-> 800, max_price |-> 1000]}
SpotPrices == {700, 1000}
ContractPrices == {700, 1000, 1100}
SpotDates == {0}

ContractBlocks ==
    {[start_date |-> s, end_date |-> e, price |-> p] :
        s \in (0 - 1)..MaxDay, e \in (0 - 1)..MaxDay, p \in ContractPrices}

\* src/src/math/spline.py ContractBlock as the spec's data model has it
WellFormed(c) == c.start_date <= c.end_date /\ c.price > 0

ContractLists ==
    UNION {[1..n -> {c \in ContractBlocks : WellFormed(c)}] : n \in 0..MaxContracts}

CurveIdle == [kind |-> "none", solver |-> "not_run", error |-> "none", curve |-> NoCurve]

Idle == [idle |-> TRUE]

\* the scheduler takes no part
SchedulerUnused ==
    /\ sc_pc = Idle
    /\ sc_snapshots = <<>>
    /\ sc_history = <<>>

EnsembleIdle ==
    /\ en_pc = "idle"
    /\ en_in = Idle
    /\ en_self = Idle
    /\ en_run = Idle
    /\ en_out = Idle

\* the accuracy store takes no part
AccuracyUnused ==
    /\ ac_today = 0
    /\ ac_forecasts = <<>>
    /\ ac_realized = <<>>
    /\ ac_last = Idle

InitCurve ==
    /\ cv_pc = "input"
    /\ cv_in \in [spot_date : SpotDates, spot_price : SpotPrices,
                  bounds : BoundsSet, contracts : ContractLists]
    /\ cv_out = CurveIdle
    /\ EnsembleIdle
    /\ AccuracyUnused
    /\ SchedulerUnused

BuildCurve ==
    /\ cv_pc = "input"
    /\ \E out \in build_curve(cv_in.spot_date, cv_in.spot_price,
                              cv_in.bounds, cv_in.contracts) :
          cv_out' = out
    /\ cv_pc' = "done"
    /\ UNCHANGED <<cv_in, enVars, acVars, scVars>>

NextCurve == BuildCurve

SpecCurve == InitCurve /\ [][NextCurve]_vars

-----------------------------------------------------------------------------
(* Claims about build_curve, checked under SpecCurve *)

CurveReturned == cv_pc = "done" /\ cv_out.kind = "curve"

\* a contract build_curve keeps: part of its range lies on the curve's span
Retained(c) ==
    /\ c.end_date >= cv_in.spot_date
    /\ \E d \in DOMAIN cv_out.curve : c.start_date <= d

\* C1: a returned curve starts at the spot price, and over every retained
\* contract's date range (clipped to the curve's span) its arithmetic mean is
\* the contract's price.
C1_CurveMeetsConstraints ==
    CurveReturned =>
        /\ cv_out.curve[cv_in.spot_date] = cv_in.spot_price
        /\ \A i \in 1..Len(cv_in.contracts) :
              LET c == cv_in.contracts[i]
                  days == {d \in DOMAIN cv_out.curve :
                              c.start_date <= d /\ d <= c.end_date}
                  lo == CHOOSE d \in days : \A e \in days : d <= e
                  hi == CHOOSE d \in days : \A e \in days : d >= e
              IN  Retained(c) =>
                     SumRange(cv_out.curve, lo, hi) = c.price * Cardinality(days)

\* C1 witness: a curve was built from a contract clipped at the spot date and
\* a later contract at another price
C1_Witness ==
    /\ CurveReturned
    /\ \E i, j \in 1..Len(cv_in.contracts) :
          /\ cv_in.contracts[i].start_date < cv_in.spot_date
          /\ Retained(cv_in.contracts[i])
          /\ Retained(cv_in.contracts[j])
          /\ cv_in.contracts[j].price # cv_in.contracts[i].price

\* C2: every value of a returned curve lies within [min_price, max_price],
\* whatever the spot price and the contract prices are.
C2_CurveWithinBounds ==
    cv_pc = "done" =>
        \A d \in DOMAIN cv_out.curve :
            /\ cv_in.bounds.min_price <= cv_out.curve[d]
            /\ cv_out.curve[d] <= cv_in.bounds.max_price

OutsideBounds(p) == ~(cv_in.bounds.min_price <= p /\ p <= cv_in.bounds.max_price)

\* C2 witness: a curve was returned although a contract price is outside the
\* bounds (the price was only logged)
C2_Witness ==
    /\ CurveReturned
    /\ \E i \in 1..Len(cv_in.contracts) : OutsideBounds(cv_in.contracts[i].price)

\* C3: when the solver does not converge, build_curve raises and no curve
\* reaches the caller.
C3_NoCurveOnFailure ==
    (cv_pc = "done" /\ cv_out.solver = "failed") =>
        /\ cv_out.kind = "raise"
        /\ cv_out.error = "optimization_failed"
        /\ cv_out.curve = NoCurve

\* C3 witness: the solver stopped without converging on a problem that has a
\* feasible curve
C3_Witness ==
    /\ cv_pc = "done"
    /\ cv_out.solver = "failed"
    /\ Feasible(DaysTotal(cv_in.spot_date, cv_in.contracts), cv_in.spot_price,
                BlockConstraints(cv_in.spot_date,
                                 DaysTotal(cv_in.spot_date, cv_in.contracts),
                                 SortByStart(cv_in.contracts)),
                cv_in.bounds) # {}


-----------------------------------------------------------------------------
(* Specification of the curve builder on contract lists that hold a        *)
(* malformed contract: a non-positive price, or an end before the start.   *)

MalformedBlocks ==
    {c \in ContractBlocks : c.end_date < c.start_date}
    \cup {[start_date |-> s, end_date |-> e, price |-> p] :
            s \in 0..MaxDay, e \in 0..MaxDay, p \in {0 - 100, 0}}

\* lists with at least one malformed contract
MalformedLists ==
    {l \in UNION {[1..n -> ContractBlocks \cup MalformedBlocks] : n \in 1..MaxContracts} :
        \E i \in 1..Len(l) : ~WellFormed(l[i])}

InitMalformed ==
    /\ cv_pc = "input"
    /\ cv_in \in [spot_date : SpotDates, spot_price : {1000},
                  bounds : {DefaultBounds}, contracts : MalformedLists]
    /\ cv_out = CurveIdle
    /\ EnsembleIdle
    /\ AccuracyUnused
    /\ SchedulerUnused

SpecMalformed == InitMalformed /\ [][NextCurve]_vars

\* the contracts of the call that are well formed, in the order given
WellFormedOnly(contracts) == SelectSeq(contracts, WellFormed)

\* C15: given a list with a malformed contract, build_curve rejects only that
\* contract: the call gives what it gives for the remaining contracts, so the
\* malformed one neither fails the build nor adds a constraint.
C15_MalformedRejected ==
    cv_pc = "done" =>
        cv_out \in build_curve(cv_in.spot_date, cv_in.spot_price, cv_in.bounds,
                               WellFormedOnly(cv_in.contracts))

\* a contract with part of its range between the spot date and the cap
InRange(c) ==
    /\ c.end_date >= cv_in.spot_date
    /\ c.start_date <= cv_in.spot_date + CapDays

\* C16: a contract lying entirely before spot_date or entirely after the
\* capped horizon is dropped: the constraints are those of the other
\* contracts, and the call goes on to the solver whatever contracts it was
\* given, also when every contract lies before spot_date.
C16_OutOfRangeDropped ==
    (cv_pc = "done" /\ cv_in.contracts # <<>>) =>
        LET sorted == SortByStart(cv_in.contracts)
            days_total == DaysTotal(cv_in.spot_date, sorted)
        IN  /\ BlockConstraints(cv_in.spot_date, days_total, sorted)
                  = BlockConstraints(cv_in.spot_date, days_total,
                                     SelectSeq(sorted, InRange))
            /\ cv_out.solver # "not_run"

-----------------------------------------------------------------------------
(* Specification of the curve builder on contract horizons around the cap. *)
(* The bounds admit one price, so the solver has one candidate curve and   *)
(* a timeline of 401 days is within reach of the search.                   *)

LongDates == {0 - 5, 0, 10, 400, 401, 450}
LongPrices == {1000, 1100}
LongBounds == [min_price |-> 1000, max_price |-> 1000]

LongBlocks ==
    {c \in [start_date : LongDates, end_date : LongDates, price : LongPrices] :
        c.start_date <= c.end_date}

LongLists == UNION {[1..n -> LongBlocks] : n \in 1..2}

InitLong ==
    /\ cv_pc = "input"
    /\ cv_in \in [spot_date : SpotDates, spot_price : {1000},
                  bounds : {LongBounds}, contracts : LongLists]
    /\ cv_out = CurveIdle
    /\ EnsembleIdle
    /\ AccuracyUnused
    /\ SchedulerUnused

SpecLong == InitLong /\ [][NextCurve]_vars

\* max(c.end_date for c in contracts) of the call
LatestEnd ==
    MaxOfSeq([i \in 1..Len(cv_in.contracts) |-> cv_in.contracts[i].end_date],
             Len(cv_in.contracts))

\* the contracts of the call that reach beyond spot_date + 400 days
PastCap(c) ==
    /\ c.start_date <= cv_in.spot_date + 400
    /\ c.end_date > cv_in.spot_date + 400

-----------------------------------------------------------------------------
(* build_curve_with_diagnostics.  The dict keys contract_<start>_avg,      *)
(* _target and _error are one entry per start_date; the mean is kept as    *)
(* the sum of the slice and its length.                                    *)

NoDiagnostics == <<>>

\* curve.iloc[start_idx : end_idx + 1].mean(), c.price and their difference
ContractDiagnostic(curve, spot_date, c) ==
    LET start_idx == c.start_date - spot_date
        end_idx == c.end_date - spot_date
        total == SumRange(curve, c.start_date, c.end_date)
        days == IF end_idx < start_idx THEN 0 ELSE end_idx - start_idx + 1
    IN  [avg_sum |-> total, avg_days |-> days, target |-> c.price,
         error_by_days |-> total - c.price * days]

RECURSIVE VerifyConstraints(_, _, _, _)
\* the loop "for c in contracts" over the first k contracts of the argument:
\* a later contract with the same start_date overwrites the keys
VerifyConstraints(curve, spot_date, contracts, k) ==
    IF k = 0 THEN NoDiagnostics
    ELSE LET d == VerifyConstraints(curve, spot_date, contracts, k - 1)
             c == contracts[k]
             start_idx == c.start_date - spot_date
             end_idx == c.end_date - spot_date
             len == Cardinality(DOMAIN curve)
         IN  IF 0 <= start_idx /\ start_idx < len /\ end_idx < len
             THEN (c.start_date :> ContractDiagnostic(curve, spot_date, c)) @@ d
             ELSE d

\* build_curve_with_diagnostics: an exception of build_curve propagates
build_curve_with_diagnostics(spot_date, spot_price, bounds, contracts) ==
    {[kind |-> out.kind, solver |-> out.solver, error |-> out.error,
      curve |-> out.curve,
      diagnostics |-> IF out.kind = "raise" THEN NoDiagnostics
                      ELSE VerifyConstraints(out.curve, spot_date, contracts,
                                             Len(contracts))] :
        out \in build_curve(spot_date, spot_price, bounds, contracts)}

BuildCurveWithDiagnostics ==
    /\ cv_pc = "input"
    /\ \E out \in build_curve_with_diagnostics(cv_in.spot_date, cv_in.spot_price,
                                               cv_in.bounds, cv_in.contracts) :
          cv_out' = out
    /\ cv_pc' = "done"
    /\ UNCHANGED <<cv_in, enVars, acVars, scVars>>

NextDiagnostics == BuildCurveWithDiagnostics

SpecDiagnostics == InitCurve /\ [][NextDiagnostics]_vars

\* C18: for every contract that build_curve retained, the diagnostics hold the
\* mean of the curve over the contract's range on the curve, the contract's
\* price as the target and their difference as the error; this includes
\* contracts clipped at spot_date or at the cap and contracts that share a
\* start_date.
C18_DiagnosticsPerRetainedContract ==
    CurveReturned =>
        \A i \in 1..Len(cv_in.contracts) :
            LET c == cv_in.contracts[i]
                days == {d \in DOMAIN cv_out.curve :
                            c.start_date <= d /\ d <= c.end_date}
                lo == CHOOSE d \in days : \A e \in days : d <= e
                hi == CHOOSE d \in days : \A e \in days : d >= e
            IN  Retained(c) =>
                    /\ c.start_date \in DOMAIN cv_out.diagnostics
                    /\ cv_out.diagnostics[c.start_date].target = c.price
                    /\ cv_out.diagnostics[c.start_date].avg_days = Cardinality(days)
                    /\ cv_out.diagnostics[c.start_date].avg_sum
                           = SumRange(cv_out.curve, lo, hi)
                    /\ cv_out.diagnostics[c.start_date].error_by_days
                           = SumRange(cv_out.curve, lo, hi) - c.price * Cardinality(days)

-----------------------------------------------------------------------------
(* create_blocks_from_market_contracts.  A calendar date is a record       *)
(* [year, month, day]; the dates of a ContractBlock are day numbers, the   *)
(* proleptic Gregorian ordinal that datetime.date orders dates by.         *)

\* calendar.isleap
isleap(year) == year % 4 = 0 /\ (year % 100 # 0 \/ year % 400 = 0)

\* calendar.monthrange(year, month)[1]: the number of days of the month
monthrange(year, month) ==
    IF month = 2 THEN (IF isleap(year) THEN 29 ELSE 28)
    ELSE IF month \in {4, 6, 9, 11} THEN 30
    ELSE 31

RECURSIVE DaysBeforeMonth(_, _)
DaysBeforeMonth(year, month) ==
    IF month <= 1 THEN 0
    ELSE DaysBeforeMonth(year, month - 1) + monthrange(year, month - 1)

\* date(year, month, day), as its ordinal
date(year, month, day) ==
    LET y == year - 1
    IN  y * 365 + (y \div 4) - (y \div 100) + (y \div 400)
            + DaysBeforeMonth(year, month) + day

\* contract_date is None / price is None
NoDate == [year |-> 0, month |-> 0, day |-> 0]
NoPrice == 0 - 1

\* mutant of quarter_of: the quarter counted from the month itself
quarter_of_month(month) == month \div 3 + 1

\* quarter = (contract_date.month - 1) // 3 + 1
quarter_of(month) == (month - 1) \div 3 + 1

\* the start and end date of one record, by its period type
block_of(mc) ==
    LET year == mc.contract_date.year
        month == mc.contract_date.month
    IN  IF mc.period_type = "Monthly"
        THEN [start_date |-> date(year, month, 1),
              end_date |-> date(year, month, monthrange(year, month)),
              price |-> mc.price]
        ELSE IF mc.period_type = "Quarterly"
        THEN LET quarter == quarter_of(month)
                 start_month == (quarter - 1) * 3 + 1
                 end_month == start_month + 2
             IN  [start_date |-> date(year, start_month, 1),
                  end_date |-> date(year, end_month, monthrange(year, end_month)),
                  price |-> mc.price]
        ELSE IF mc.period_type = "Calendar"
        THEN [start_date |-> date(year, 1, 1),
              end_date |-> date(year, 12, 31),
              price |-> mc.price]
        ELSE \* unknown period type, treated as Monthly
             [start_date |-> date(year, month, 1),
              end_date |-> date(year, month, monthrange(year, month)),
              price |-> mc.price]

RECURSIVE blocks_of(_)
\* the loop over market_contracts: records without a date or a price are skipped
blocks_of(market_contracts) ==
    IF market_contracts = <<>> THEN <<>>
    ELSE LET mc == Head(market_contracts)
         IN  (IF mc.contract_date = NoDate \/ mc.price = NoPrice
              THEN <<>>
              ELSE <<block_of(mc)>>) \o blocks_of(Tail(market_contracts))

\* blocks.sort(key=lambda b: b.start_date); return blocks
create_blocks_from_market_contracts(market_contracts) ==
    SortByStart(blocks_of(market_contracts))

AnchorYears == {2027, 2028}
AnchorMonths == {2, 6, 12}
AnchorDates ==
    {[year |-> y, month |-> mo, day |-> d] :
        y \in AnchorYears, mo \in AnchorMonths, d \in {1, 28}}
        \cup {[year |-> y, month |-> mo, day |-> monthrange(y, mo)] :
                y \in AnchorYears, mo \in AnchorMonths}
PeriodTypes == {"Monthly", "Quarterly", "Calendar", "Weekly"}

MarketContracts ==
    [contract_date : AnchorDates \cup {NoDate}, period_type : PeriodTypes,
     price : {1000, NoPrice}]

MarketContractLists == UNION {[1..n -> MarketContracts] : n \in 1..2}

InitBlocks ==
    /\ cv_pc = "input"
    /\ cv_in \in [market_contracts : MarketContractLists]
    /\ cv_out = CurveIdle
    /\ EnsembleIdle
    /\ AccuracyUnused
    /\ SchedulerUnused

CreateBlocks ==
    /\ cv_pc = "input"
    /\ cv_out' = [blocks |-> create_blocks_from_market_contracts(cv_in.market_contracts)]
    /\ cv_pc' = "done"
    /\ UNCHANGED <<cv_in, enVars, acVars, scVars>>

NextBlocks == CreateBlocks

SpecBlocks == InitBlocks /\ [][NextBlocks]_vars

\* the records of the call that have a contract date and a price
Complete(mc) == mc.contract_date # NoDate /\ mc.price # NoPrice

\* the first day of the month after (year, month)
NextMonthStart(year, month) ==
    IF month = 12 THEN date(year + 1, 1, 1) ELSE date(year, month + 1, 1)

\* the block the period tag of a record stands for
PeriodOf(mc) ==
    LET year == mc.contract_date.year
        month == mc.contract_date.month
        first == CHOOSE s \in {1, 4, 7, 10} : s <= month /\ month <= s + 2
    IN  IF mc.period_type = "Quarterly"
        THEN [start_date |-> date(year, first, 1),
              end_date |-> NextMonthStart(year, first + 2) - 1, price |-> mc.price]
        ELSE IF mc.period_type = "Calendar"
        THEN [start_date |-> date(year, 1, 1),
              end_date |-> date(year + 1, 1, 1) - 1, price |-> mc.price]
        ELSE [start_date |-> date(year, month, 1),
              end_date |-> NextMonthStart(year, month) - 1, price |-> mc.price]

\* C19: the blocks returned are, one for one, the periods of the records
\* that have a contract date and a price (month, quarter or year of the
\* anchor date; the month for an unrecognized tag); every block has
\* start_date <= end_date and the blocks are in order of start_date.
C19_BlocksFromRecords ==
    (cv_pc = "done" /\ "blocks" \in DOMAIN cv_out) =>
        LET recs == SelectSeq(cv_in.market_contracts, Complete)
            blocks == cv_out.blocks
        IN  /\ Len(blocks) = Len(recs)
            /\ \A b \in {PeriodOf(recs[j]) : j \in 1..Len(recs)}
                     \cup {blocks[i] : i \in 1..Len(blocks)} :
                  Cardinality({i \in 1..Len(blocks) : blocks[i] = b})
                      = Cardinality({j \in 1..Len(recs) : PeriodOf(recs[j]) = b})
            /\ \A i \in 1..Len(blocks) : blocks[i].start_date <= blocks[i].end_date
            /\ \A i, j \in 1..Len(blocks) :
                  i < j => blocks[i].start_date <= blocks[j].start_date

\* a quarterly record anchored on the last month of its quarter and a record
\* with an unknown tag were turned into two blocks, in the other order
C19_Witness ==
    /\ cv_pc = "done"
    /\ "blocks" \in DOMAIN cv_out
    /\ Len(cv_in.market_contracts) = 2
    /\ Len(cv_out.blocks) = 2
    /\ cv_in.market_contracts[1].period_type = "Weekly"
    /\ cv_in.market_contracts[2].period_type = "Quarterly"
    /\ cv_in.market_contracts[2].contract_date.month = 6
    /\ cv_out.blocks[1] = PeriodOf(cv_in.market_contracts[2])
    /\ cv_out.blocks[2] = PeriodOf(cv_in.market_contracts[1])
    /\ cv_out.blocks[1].start_date < cv_out.blocks[2].start_date

-----------------------------------------------------------------------------
(* pandas Series as the forecasting code uses them: a function from index  *)
(* labels to values.  A label is <<"date", d>> (DatetimeIndex, day d),     *)
(* <<"pos", i>> (the default RangeIndex) or <<"ns", i>> (an integer label  *)
(* read as a timestamp: i nanoseconds after the epoch).  NaN is a value no *)
(* price takes.                                                             *)

NaN == 0 - 2000000000

DateLabel(d) == <<"date", d>>

\* a Series with every value computed (the same function, held as a table)
Table(f) == f @@ <<>>

\* pd.date_range(start=start, periods=n, freq='D')
date_range(start, n) == {DateLabel(start + i) : i \in 0..(n - 1)}

\* pd.Series(vals, index=pd.date_range(start, periods=Len(vals)))
DateSeries(start, vals) ==
    Table([l \in date_range(start, Len(vals)) |-> vals[l[2] - start + 1]])

\* pd.Series(value, index=index)
FlatSeries(value, index) == Table([l \in index |-> value])

\* pd.Series(vals): no index given, so the labels are the positions 0..n-1
RangeSeries(vals) ==
    Table([l \in {<<"pos", i - 1>> : i \in 1..Len(vals)} |-> vals[l[2] + 1]])

\* series.index = pd.to_datetime(series.index) for an index that is not a
\* DatetimeIndex: integer labels become nanosecond timestamps
ToDatetimeIndex(s) ==
    IF \A l \in DOMAIN s : l[1] = "date" THEN s
    ELSE Table([l \in {<<"ns", k[2]>> : k \in DOMAIN s} |-> s[<<"pos", l[2]>>]])

\* a binary operation on two Series: the labels are aligned on the union of
\* the two indexes, and a label missing on either side gives NaN
SeriesOp(Op(_, _), a, b) ==
    Table([l \in (DOMAIN a) \cup (DOMAIN b) |->
             IF l \in DOMAIN a /\ l \in DOMAIN b /\ a[l] # NaN /\ b[l] # NaN
             THEN Op(a[l], b[l])
             ELSE NaN])

\* smallest and largest member of a non-empty set of integers
MinOfSet(S) == CHOOSE k \in S : \A j \in S : k <= j
MaxOfSet(S) == 0 - MinOfSet({0 - k : k \in S})

\* series.reindex(dates).ffill().bfill().fillna(fallback) on the day axis
\* start .. start+n-1: a day missing from the series takes the last value
\* before it (ffill), else the first value after it (bfill), else the fallback
ReindexFill(s, start, n, fallback) ==
    LET re == Table([i \in 1..n |->
                  IF DateLabel(start + i - 1) \in DOMAIN s
                  THEN s[DateLabel(start + i - 1)] ELSE NaN])
        valid == {i \in 1..n : re[i] # NaN}
        first == IF valid = {} THEN fallback ELSE re[MinOfSet(valid)]
        filled(i) ==
            IF i \in valid THEN re[i]
            ELSE LET before == {k \in valid : k < i}
                 IN  IF before = {} THEN first ELSE re[MaxOfSet(before)]
    IN  Table([l \in date_range(start, n) |-> filled(l[2] - start + 1)])

\* integer square root, and 1000 * sqrt(d) for the days of the longest horizon
ISqrt(k) == CHOOSE r \in 0..46340 : r * r <= k /\ k < (r + 1) * (r + 1)


-----------------------------------------------------------------------------
(* src/src/math/forecast.py                                                 *)

\* longest forecast horizon of the model, in days
MaxHorizon == 91

\* 1000 * sqrt(d): np.sqrt(days), to three decimals
SqrtMilli == [d \in 1..(MaxHorizon + 1) |-> ISqrt(1000000 * d)]

\* half_life_days=180 as the ensemble constructs the model
HalfLifeDays == 180

\* 1000 * exp(-theta * t) with theta = ln(2) / half_life: halves every
\* half-life, interpolated linearly within one
DecayMilli(t) ==
    LET q == t \div HalfLifeDays
        r == t % HalfLifeDays
    IN  ((1000 * (2 * HalfLifeDays - r)) \div (2 * HalfLifeDays)) \div (2 ^ q)

\* MeanReversionModel.forecast: mu + (P0 - mu) * exp(-theta * t), t = 1..horizon,
\* indexed by the days from date.today()
MeanReversionForecast(long_term_mean, current_price, horizon_days, today) ==
    DateSeries(today,
        [t \in 1..horizon_days |->
            long_term_mean
              + ((current_price - long_term_mean) * DecayMilli(t)) \div 1000])

\* SimpleMovingAverageForecast(window=30)
SmaWindow == 30

\* historical_prices.tail(window)
Tail_n(vals, n) ==
    IF Len(vals) <= n THEN vals ELSE SubSeq(vals, Len(vals) - n + 1, Len(vals))

SeqAsFn(vals) == [i \in 1..Len(vals) |-> vals[i]]

\* SimpleMovingAverageForecast.forecast: ma + trend * t, indexed from the day
\* after the last historical date.  recent.iloc[-1] raises on an empty series,
\* index[-1] + timedelta raises on an integer index.  Whole dollars.
SmaForecast(hist, horizon_days) ==
    IF hist.vals = <<>> THEN [ok |-> FALSE, error |-> "index_error", series |-> <<>>]
    ELSE IF hist.kind # "date"
    THEN [ok |-> FALSE, error |-> "type_error", series |-> <<>>]
    ELSE LET recent == Tail_n(hist.vals, SmaWindow)
             n == Len(recent)
             total == SumRange(SeqAsFn(recent), 1, n)
             diff == recent[n] - recent[1]
         IN  [ok |-> TRUE, error |-> "none",
              series |-> DateSeries(hist.last + 1,
                            [t \in 1..horizon_days |-> (total + diff * t) \div n])]

\* day number of 1970-01-01, where integer labels land as timestamps
EpochDay == 0 - 20000

\* levels an ARIMA forecast may take in the model
ArimaLevels == {1100}

\* ARIMAForecaster(order=(2,1,2)).fit(h).forecast(horizon).point_forecast:
\* the fit is library code that either raises or yields a forecast indexed
\* from the day after the last (daily-resampled) observation; it cannot fit
\* an empty series
ArimaForecast(hist, horizon_days) ==
    {[ok |-> FALSE, error |-> "fit_failed", series |-> <<>>]}
    \cup
    (IF hist.vals = <<>> THEN {}
     ELSE {[ok |-> TRUE, error |-> "none",
            series |-> DateSeries((IF hist.kind = "date" THEN hist.last ELSE EpochDay) + 1,
                                  [t \in 1..horizon_days |-> level])] :
              level \in ArimaLevels})


-----------------------------------------------------------------------------
(* src/src/math/ensemble.py : EnsembleForecaster                            *)
(* Weights are hundredths: a weight set is [w |-> key -> numerator,        *)
(* den |-> denominator], the weight of key k being w[k] / den.             *)

\* 1.0 in hundredths
WeightUnit == 10 * 10

RECURSIVE SumKeys(_, _)
\* sum(d[k] for k in keys)
SumKeys(d, keys) ==
    IF keys = {} THEN 0
    ELSE LET k == CHOOSE x \in keys : TRUE
         IN  d[k] + SumKeys(d, keys \ {k})

\* the default of the weights argument
DefaultWeights == [futures_curve |-> 50, statistical |-> 30, mean_reversion |-> 20]

\* the long_term_mean default
DefaultLongTermMean == 1100

\* __init__: "weights or {defaults}", then normalisation by the total when
\* the total is not 1.0; v/total divides by zero when the total is 0
EnsembleInit(weights, long_term_mean, adapt_weights) ==
    LET chosen == IF DOMAIN weights = {} THEN DefaultWeights ELSE weights
        total == SumKeys(chosen, DOMAIN chosen)
    IN  IF total = WeightUnit
        THEN [ok |-> TRUE, weights |-> [w |-> chosen, den |-> WeightUnit],
              long_term_mean |-> long_term_mean, adapt_weights |-> adapt_weights]
        ELSE IF total = 0
        THEN [ok |-> FALSE, error |-> "zero_division"]
        ELSE [ok |-> TRUE, weights |-> [w |-> chosen, den |-> total],
              long_term_mean |-> long_term_mean, adapt_weights |-> adapt_weights]

\* the two horizon thresholds of _get_horizon_adjusted_weights
NearTermDays == 30
MediumTermDays == 90

\* mutant of _get_horizon_adjusted_weights: "<" for "<=" at the thresholds
horizon_adjusted_weights_strict(self, horizon_days) ==
    IF ~self.adapt_weights THEN self.weights
    ELSE IF horizon_days < NearTermDays
    THEN [w |-> [futures_curve |-> 60, statistical |-> 25, mean_reversion |-> 15],
          den |-> WeightUnit]
    ELSE IF horizon_days < MediumTermDays
    THEN [w |-> [futures_curve |-> 45, statistical |-> 30, mean_reversion |-> 25],
          den |-> WeightUnit]
    ELSE [w |-> [futures_curve |-> 30, statistical |-> 30, mean_reversion |-> 40],
          den |-> WeightUnit]

\* _get_horizon_adjusted_weights
horizon_adjusted_weights(self, horizon_days) ==
    IF ~self.adapt_weights THEN self.weights
    ELSE IF horizon_days <= NearTermDays
    THEN [w |-> [futures_curve |-> 60, statistical |-> 25, mean_reversion |-> 15],
          den |-> WeightUnit]
    ELSE IF horizon_days <= MediumTermDays
    THEN [w |-> [futures_curve |-> 45, statistical |-> 30, mean_reversion |-> 25],
          den |-> WeightUnit]
    ELSE [w |-> [futures_curve |-> 30, statistical |-> 30, mean_reversion |-> 40],
          den |-> WeightUnit]

\* _align_to_dates: an empty series gives the flat fallback; otherwise
\* reindex on the target days, forward-fill, back-fill, then the fallback
align_to_dates(series, start, n, fallback_value) ==
    IF DOMAIN series = {}
    THEN FlatSeries(fallback_value, date_range(start, n))
    ELSE ReindexFill(ToDatetimeIndex(series), start, n, fallback_value)

\* the curve Series build_curve returned, with date labels
CurveSeries(curve) == Table([l \in {DateLabel(d) : d \in DOMAIN curve} |-> curve[l[2]]])

\* mutant of FuturesComponent: no except clause around the curve build
FuturesComponent_no_except(spline, spot_price, start, n) ==
    IF spline.kind = "raise"
    THEN [raised |-> TRUE, error |-> spline.error, series |-> <<>>]
    ELSE [raised |-> FALSE, error |-> "none",
          series |-> align_to_dates(CurveSeries(spline.curve), start, n, spot_price)]

\* step 1 of forecast, the try/except around the curve build: the aligned
\* curve, or the flat projection at spot_price when anything raised
FuturesComponent(spline, spot_price, start, n) ==
    IF spline.kind = "raise"
    THEN [raised |-> FALSE, error |-> "none",
          series |-> FlatSeries(spot_price, date_range(start, n))]
    ELSE [raised |-> FALSE, error |-> "none",
          series |-> align_to_dates(CurveSeries(spline.curve), start, n, spot_price)]

\* mutant of StatisticalComponent: the moving-average baseline is not tried
\* after the autoregressive model fails
StatisticalComponent_no_sma(arima, sma, spot_price, start, n) ==
    IF arima.ok THEN align_to_dates(arima.series, start, n, spot_price)
    ELSE FlatSeries(spot_price, date_range(start, n))

\* step 2 of forecast: ARIMA, else the moving average, else flat
StatisticalComponent(arima, sma, spot_price, start, n) ==
    IF arima.ok THEN align_to_dates(arima.series, start, n, spot_price)
    ELSE IF sma.ok THEN align_to_dates(sma.series, start, n, spot_price)
    ELSE FlatSeries(spot_price, date_range(start, n))

Plus(a, b) == a + b
Minus(a, b) == a - b

ScaleSeries(k, s) == Table([l \in DOMAIN s |-> IF s[l] = NaN THEN NaN ELSE k * s[l]])

RECURSIVE WeightedSum(_, _, _, _)
\* combined = 0.0 on the axis; for component, weight in weights.items():
\* if component in component_forecasts: combined += weight * component
WeightedSum(w, components, keys, zero) ==
    IF keys = {} THEN zero
    ELSE LET k == CHOOSE x \in keys : TRUE
         IN  SeriesOp(Plus, WeightedSum(w, components, keys \ {k}, zero),
                      ScaleSeries(w[k], components[k]))

\* returns = historical_prices.pct_change().dropna(), in 1/10000
Returns(vals) ==
    [i \in 1..(Len(vals) - 1) |-> ((vals[i + 1] - vals[i]) * 10000) \div vals[i]]

\* returns.std(): the sample standard deviation, NaN with fewer than two returns
DailyVol(vals) ==
    LET r == Returns(vals)
        n == Len(vals) - 1
        s1 == SumRange(r, 1, n)
        s2 == SumRange([i \in 1..n |-> r[i] * r[i]], 1, n)
    IN  IF n < 2 THEN NaN ELSE ISqrt((n * s2 - s1 * s1) \div (n * (n - 1)))

\* _estimate_volatility: daily_vol * sqrt(day) * last price, capped at 30% of
\* the last price; historical_prices.iloc[-1] raises on an empty series.  The
\* result is pd.Series(vol_curve): it carries the default integer index.
estimate_volatility(hist, horizon_days) ==
    IF hist.vals = <<>> THEN [ok |-> FALSE, error |-> "index_error", series |-> <<>>]
    ELSE LET last_price == hist.vals[Len(hist.vals)]
             daily_vol == DailyVol(hist.vals)
         IN  [ok |-> TRUE, error |-> "none",
              series |-> RangeSeries(
                 [d \in 1..horizon_days |->
                     IF daily_vol = NaN THEN NaN
                     ELSE Min2((((daily_vol * SqrtMilli[d]) \div 1000) * last_price) \div 10000,
                               (30 * last_price) \div 100)])]

Components == {"futures_curve", "statistical", "mean_reversion"}

\* forecast, for one result of the solver and one of the ARIMA fit.  The
\* result's five series are in units of 1/(1000 * den) dollars.
forecast(self, a, spline, arima) ==
    LET start == a.spot_date
        n == a.horizon_days
        forecast_dates == date_range(start, n)
        sma == IF arima.ok THEN [ok |-> FALSE, error |-> "not_tried", series |-> <<>>]
               ELSE SmaForecast(a.historical_prices, n)
        futures == FuturesComponent(spline, a.spot_price, start, n)
        component_forecasts ==
            [futures_curve |-> futures.series,
             statistical |-> StatisticalComponent(arima, sma, a.spot_price, start, n),
             mean_reversion |->
                 align_to_dates(
                     MeanReversionForecast(self.long_term_mean, a.spot_price, n, a.today),
                     start, n, a.spot_price)]
        weights == horizon_adjusted_weights(self, n)
        applied == (DOMAIN weights.w) \cap (DOMAIN component_forecasts)
        combined == WeightedSum(weights.w, component_forecasts, applied,
                                FlatSeries(0, forecast_dates))
        vol == estimate_volatility(a.historical_prices, n)
        point == ScaleSeries(1000, combined)
        band(k) == ScaleSeries(k * weights.den, vol.series)
        run == [spline |-> spline, arima |-> arima, sma |-> sma,
                component_forecasts |-> component_forecasts,
                weights |-> weights, applied |-> applied, combined |-> combined]
    IN  IF futures.raised
        THEN [run |-> run,
              out |-> [kind |-> "raise", error |-> futures.error,
                       raised_in |-> "build_curve"]]
        ELSE IF ~vol.ok
        THEN [run |-> run,
              out |-> [kind |-> "raise", error |-> vol.error,
                       raised_in |-> "_estimate_volatility"]]
        ELSE [run |-> run,
              out |-> [kind |-> "result", error |-> "none",
                       dates |-> forecast_dates,
                       point_forecast |-> point,
                       lower_bound_90 |-> SeriesOp(Minus, point, band(1645)),
                       upper_bound_90 |-> SeriesOp(Plus, point, band(1645)),
                       lower_bound_50 |-> SeriesOp(Minus, point, band(674)),
                       upper_bound_50 |-> SeriesOp(Plus, point, band(674)),
                       component_weights |-> weights,
                       component_forecasts |-> component_forecasts,
                       unit |-> 1000 * weights.den]]


-----------------------------------------------------------------------------
(* Specification of the ensemble forecaster: the constructor and call      *)
(* arguments are drawn in Init, Construct is __init__, Forecast the call.  *)

\* longest historical series of the model
MaxHist == 3

HistPrices == {900, 1000}
Horizons == {2, NearTermDays, NearTermDays + 1, MediumTermDays, MaxHorizon}

\* the weights argument: None (the empty record), a split that sums to 1, a
\* split that does not, one with a key that names no component, one of zeros
WeightArgs ==
    {<<>>,
     [futures_curve |-> 20, statistical |-> 30, mean_reversion |-> 50],
     [futures_curve |-> 2, statistical |-> 1, mean_reversion |-> 1],
     [futures_curve |-> 50, prophet |-> 50],
     [futures_curve |-> 0, statistical |-> 0, mean_reversion |-> 0]}

\* historical_prices, vals in index order: kind "date" is a daily
\* DatetimeIndex ending on day last (here the day before the spot date), kind
\* "pos" the default integer index
Histories(spot_date) ==
    {[kind |-> "date", last |-> spot_date - 1, vals |-> v] :
        v \in UNION {[1..n -> HistPrices] : n \in 0..MaxHist}}
    \cup
    {[kind |-> "pos", last |-> n - 1, vals |-> [i \in 1..n |-> 1000]] : n \in 0..MaxHist}

EnsembleContracts ==
    {<<>>,
     <<[start_date |-> 0, end_date |-> 1, price |-> 1100]>>,
     <<[start_date |-> 0 - 1, end_date |-> 0 - 1, price |-> 1000]>>}

CurveUnused ==
    /\ cv_pc = "idle"
    /\ cv_in = Idle
    /\ cv_out = CurveIdle

InitEnsemble ==
    /\ en_pc = "new"
    /\ \E sd \in SpotDates :
          en_in \in [weights : WeightArgs,
                     long_term_mean : {DefaultLongTermMean},
                     adapt_weights : BOOLEAN,
                     spot_price : SpotPrices,
                     spot_date : {sd},
                     contracts : EnsembleContracts,
                     historical_prices : Histories(sd),
                     horizon_days : Horizons,
                     today : {sd, sd + 1}]
    /\ en_self = Idle
    /\ en_run = Idle
    /\ en_out = Idle
    /\ CurveUnused
    /\ AccuracyUnused
    /\ SchedulerUnused

\* EnsembleForecaster(weights, long_term_mean, adapt_weights)
Construct ==
    /\ en_pc = "new"
    /\ en_self' = EnsembleInit(en_in.weights, en_in.long_term_mean, en_in.adapt_weights)
    /\ en_pc' = IF en_self'.ok THEN "ready" ELSE "ctor_raised"
    /\ UNCHANGED <<en_in, en_run, en_out, cvVars, acVars, scVars>>

\* ensemble.forecast(spot_price, spot_date, contracts, historical_prices, horizon_days)
Forecast ==
    /\ en_pc = "ready"
    /\ \E spline \in build_curve(en_in.spot_date, en_in.spot_price, DefaultBounds,
                                 en_in.contracts),
          arima \in ArimaForecast(en_in.historical_prices, en_in.horizon_days) :
          \E f \in {forecast(en_self, en_in, spline, arima)} :
             /\ en_run' = f.run
             /\ en_out' = f.out
             /\ en_pc' = IF f.out.kind = "result" THEN "returned" ELSE "raised"
    /\ UNCHANGED <<en_in, en_self, cvVars, acVars, scVars>>

NextEnsemble == Construct \/ Forecast

SpecEnsemble == InitEnsemble /\ [][NextEnsemble]_vars


-----------------------------------------------------------------------------
(* Claims about EnsembleForecaster, checked under SpecEnsemble              *)

\* forecast has run, whether it returned a result or raised
ForecastDone == en_pc \in {"returned", "raised"}

\* the day axis of the call: pd.date_range(spot_date, periods=horizon_days)
ForecastAxis == date_range(en_in.spot_date, en_in.horizon_days)

\* C4: for every weight dictionary passed to the constructor and every
\* horizon, the component_weights of a returned result sum to 1.0, and so do
\* the weights that the weighted sum actually applied.
C4_WeightsSumToOne ==
    en_pc = "returned" =>
        /\ SumKeys(en_out.component_weights.w, DOMAIN en_out.component_weights.w)
              = en_out.component_weights.den
        /\ SumKeys(en_run.weights.w, en_run.applied) = en_run.weights.den

\* the five series of a returned result
ResultSeries ==
    <<en_out.lower_bound_90, en_out.lower_bound_50, en_out.point_forecast,
      en_out.upper_bound_50, en_out.upper_bound_90>>

\* C5: in every returned result, on every day of the forecast axis the five
\* values are defined and lower_90 <= lower_50 <= point <= upper_50 <= upper_90.
C5_BandsDefinedAndOrdered ==
    en_pc = "returned" =>
        \A l \in en_out.dates :
            /\ \A i \in 1..5 : l \in DOMAIN ResultSeries[i] /\ ResultSeries[i][l] # NaN
            /\ \A i \in 1..4 : ResultSeries[i][l] <= ResultSeries[i + 1][l]

\* the weight table of the horizon-adaptive mode, in hundredths
AdaptiveTable(horizon_days) ==
    IF horizon_days <= 30
    THEN [futures_curve |-> 60, statistical |-> 25, mean_reversion |-> 15]
    ELSE IF horizon_days <= 90
    THEN [futures_curve |-> 45, statistical |-> 30, mean_reversion |-> 25]
    ELSE [futures_curve |-> 30, statistical |-> 30, mean_reversion |-> 40]

\* the split the caller configured: the weights argument, or 0.50/0.30/0.20
ConfiguredSplit ==
    IF en_in.weights = <<>>
    THEN [futures_curve |-> 50, statistical |-> 30, mean_reversion |-> 20]
    ELSE en_in.weights

WeightOf(k) == IF k \in DOMAIN en_run.weights.w THEN en_run.weights.w[k] ELSE 0

C8_FlatCurveOnBuildFailure ==
    ForecastDone /\ en_run.spline.kind = "raise" =>
        /\ DOMAIN en_run.component_forecasts.futures_curve = ForecastAxis
        /\ \A l \in ForecastAxis :
              en_run.component_forecasts.futures_curve[l] = en_in.spot_price
        /\ ~(en_out.kind = "raise" /\ en_out.raised_in = "build_curve")

\* the solver did not converge inside a forecast that returned a result
C8_Witness ==
    /\ en_pc = "returned"
    /\ en_run.spline.kind = "raise"
    /\ en_run.spline.solver = "failed"
    /\ en_in.spot_price = 1000

\* C9: forecast returns a result instead of raising for every
\* historical_prices input, an empty or too-short series included.
C9_ForecastNeverRaises ==
    ForecastDone => en_out.kind = "result"


-----------------------------------------------------------------------------
(* src/src/db/access.py, src/src/scheduler.py, src/src/api/main.py :        *)
(* the forecast_accuracy and realized_prices tables.  A price is whole      *)
(* dollars; error_pct is held in hundredths of a percent.                   *)

\* a nullable Float column that holds no value
NULL == 0 - 1000000

\* most forecast_accuracy rows the model stores
MaxForecasts == 2

Products == <<"NBSK", "BEK">>
ProductSet == {Products[i] : i \in 1..Len(Products)}

\* the days date.today() takes, forecast horizons in days, predicted prices,
\* and the prices a caller may post
Days == {0, 1}
HorizonDays == {1}
PredictedPrices == {1550}
PostedPrices == {0, 900, 1500}
TargetDates == {d + h : d \in Days, h \in HorizonDays}

\* the row ForecastRepository.save_forecast adds: actual_price, error and
\* error_pct are not given, so they are stored as NULL
NewForecast(prediction_date, target_date, product_type, predicted_price) ==
    [prediction_date |-> prediction_date, target_date |-> target_date,
     product_type |-> product_type, predicted_price |-> predicted_price,
     forecast_horizon_days |-> target_date - prediction_date,
     actual_price |-> NULL, error |-> NULL, error_pct |-> NULL]

\* mutant of Fill: the error taken as actual - predicted
Fill_reversed(f, actual) ==
    [f EXCEPT !.actual_price = actual,
              !.error = actual - f.predicted_price,
              !.error_pct = ((actual - f.predicted_price) * 10000) \div actual]

\* the three assignments that fill a row: error = predicted - actual,
\* error_pct = (error / actual) * 100
Fill(f, actual) ==
    [f EXCEPT !.actual_price = actual,
              !.error = f.predicted_price - actual,
              !.error_pct = ((f.predicted_price - actual) * 10000) \div actual]

\* mutant of SelectForUpdate: the select without actual_price IS NULL
SelectForUpdate_any(fs, target_date, product_type) ==
    {i \in 1..Len(fs) :
        fs[i].target_date = target_date /\ fs[i].product_type = product_type}

\* the select of update_with_actual: rows of the target date and product
\* whose actual_price is still NULL
SelectForUpdate(fs, target_date, product_type) ==
    {i \in 1..Len(fs) :
        /\ fs[i].target_date = target_date
        /\ fs[i].product_type = product_type
        /\ fs[i].actual_price = NULL}

\* ForecastRepository.update_with_actual: every selected row is filled and
\* the session committed; a zero actual_price divides by zero on the first
\* selected row, before the commit, and the rows stay as stored
update_with_actual(fs, target_date, product_type, actual_price) ==
    LET sel == SelectForUpdate(fs, target_date, product_type)
    IN  IF sel # {} /\ actual_price = 0
        THEN [raised |-> TRUE, forecasts |-> fs, updated |-> 0]
        ELSE [raised |-> FALSE,
              forecasts |-> [i \in 1..Len(fs) |->
                                IF i \in sel THEN Fill(fs[i], actual_price) ELSE fs[i]],
              updated |-> Cardinality(sel)]

\* ForecastRepository.get_pending_forecasts: unfilled rows of the product
\* whose target date has come
get_pending_forecasts(fs, product_type, today) ==
    {i \in 1..Len(fs) :
        /\ fs[i].product_type = product_type
        /\ fs[i].actual_price = NULL
        /\ fs[i].target_date <= today}

\* mutant of ValidateProduct: the realized price is looked up without the
\* "target in realized.index" test, so a pending row without one raises
ValidateProduct_no_test(fs, realized, product_type, today) ==
    LET pending == get_pending_forecasts(fs, product_type, today)
        has(i) == <<fs[i].target_date, product_type>> \in DOMAIN realized
        price(i) == realized[<<fs[i].target_date, product_type>>]
    IN  IF \E i \in pending : ~has(i) \/ price(i) = 0
        THEN [raised |-> TRUE, forecasts |-> fs]
        ELSE [raised |-> FALSE,
              forecasts |-> [i \in 1..Len(fs) |->
                                IF i \in pending THEN Fill(fs[i], price(i)) ELSE fs[i]]]

\* one round of the product loop of validate_forecasts_against_actuals: the
\* pending rows whose target date has a realized price are filled and the
\* session committed; a realized price of zero raises before the commit
ValidateProduct(fs, realized, product_type, today) ==
    LET pending == get_pending_forecasts(fs, product_type, today)
        matched == {i \in pending : <<fs[i].target_date, product_type>> \in DOMAIN realized}
        price(i) == realized[<<fs[i].target_date, product_type>>]
    IN  IF \E i \in matched : price(i) = 0
        THEN [raised |-> TRUE, forecasts |-> fs]
        ELSE [raised |-> FALSE,
              forecasts |-> [i \in 1..Len(fs) |->
                                IF i \in matched THEN Fill(fs[i], price(i)) ELSE fs[i]]]

\* rows that one round filled: total_updated += 1 for each
FilledBy(before, after) ==
    {i \in 1..Len(before) :
        before[i].actual_price = NULL /\ after[i].actual_price # NULL}

RECURSIVE ValidateFrom(_, _, _, _, _)
\* the product loop from product number p on, total_updated being n so far:
\* an exception ends the run, keeps what the earlier rounds committed, is
\* recorded as an error and makes the run return 0
ValidateFrom(fs, realized, p, today, n) ==
    IF p > Len(Products)
    THEN [forecasts |-> fs, updated |-> n, status |-> "success"]
    ELSE LET r == ValidateProduct(fs, realized, Products[p], today)
         IN  IF r.raised
             THEN [forecasts |-> fs, updated |-> 0, status |-> "error"]
             ELSE ValidateFrom(r.forecasts, realized, p + 1, today,
                               n + Cardinality(FilledBy(fs, r.forecasts)))

\* some row of the target date and product is already filled, with a price
\* other than the one now offered
FilledOtherwise(fs, target_date, product_type, price) ==
    \E i \in 1..Len(fs) :
        /\ fs[i].target_date = target_date
        /\ fs[i].product_type = product_type
        /\ fs[i].actual_price # NULL
        /\ fs[i].actual_price # price


-----------------------------------------------------------------------------
(* Specification of the accuracy store: forecasts are saved, realized       *)
(* prices posted, actuals posted, the validation job run, and days pass.    *)

\* the dates realized prices are posted for
RealizedDates == {1}

\* the last operation: its name, whether it met a row already filled with
\* another price, the status it recorded and the count it returned
LastRun(op, met_filled, status, updated) ==
    [op |-> op, met_filled |-> met_filled, status |-> status, updated |-> updated]

Last(op, met_filled) == LastRun(op, met_filled, "none", 0)

InitAccuracy ==
    /\ ac_today = 0
    /\ ac_forecasts = <<>>
    /\ ac_realized = <<>>
    /\ ac_last = Last("none", FALSE)
    /\ CurveUnused
    /\ EnsembleIdle
    /\ SchedulerUnused

\* ForecastRepository.save_forecast, called on the prediction date
SaveForecast ==
    /\ Len(ac_forecasts) < MaxForecasts
    /\ \E product \in ProductSet, h \in HorizonDays, predicted \in PredictedPrices :
          ac_forecasts' = Append(ac_forecasts,
                                 NewForecast(ac_today, ac_today + h, product, predicted))
    /\ ac_last' = Last("save_forecast", FALSE)
    /\ UNCHANGED <<ac_today, ac_realized, cvVars, enVars, scVars>>

\* POST /api/v1/realized/price: an NBSK price outside 800..2500 is refused;
\* the row is inserted and committed unless the date and product already
\* have one (unique index); then update_with_actual runs with the same price
SaveRealizedPrice ==
    /\ \E price_date \in RealizedDates, product \in ProductSet, price \in PostedPrices :
          IF product = "NBSK" /\ ~(800 <= price /\ price <= 2500)
          THEN /\ ac_last' = Last("realized_price_refused", FALSE)
               /\ UNCHANGED <<ac_realized, ac_forecasts, scVars>>
          ELSE IF <<price_date, product>> \in DOMAIN ac_realized
          THEN /\ ac_last' = Last("realized_price_duplicate", FALSE)
               /\ UNCHANGED <<ac_realized, ac_forecasts, scVars>>
          ELSE /\ ac_realized' = ac_realized @@ (<<price_date, product>> :> price)
               /\ ac_forecasts' =
                     update_with_actual(ac_forecasts, price_date, product, price).forecasts
               /\ ac_last' = Last("realized_price",
                                  FilledOtherwise(ac_forecasts, price_date, product, price))
    /\ UNCHANGED <<ac_today, cvVars, enVars, scVars>>

\* POST /api/v1/forecast/accuracy/update
UpdateForecastAccuracy ==
    /\ \E target_date \in TargetDates, product \in ProductSet, actual \in PostedPrices :
          /\ ac_forecasts' =
                update_with_actual(ac_forecasts, target_date, product, actual).forecasts
          /\ ac_last' = Last("update_with_actual",
                             FilledOtherwise(ac_forecasts, target_date, product, actual))
    /\ UNCHANGED <<ac_today, ac_realized, cvVars, enVars, scVars>>

\* validate_forecasts_against_actuals
Validate ==
    /\ \E run \in {ValidateFrom(ac_forecasts, ac_realized, 1, ac_today, 0)} :
          /\ ac_forecasts' = run.forecasts
          /\ ac_last' = LastRun("validate",
                                \E k \in DOMAIN ac_realized :
                                   /\ k[1] <= ac_today
                                   /\ FilledOtherwise(ac_forecasts, k[1], k[2],
                                                      ac_realized[k]),
                                run.status, run.updated)
    /\ UNCHANGED <<ac_today, ac_realized, cvVars, enVars, scVars>>

\* midnight: date.today() moves on
Tick ==
    /\ ac_today + 1 \in Days
    /\ ac_today' = ac_today + 1
    /\ ac_last' = Last("tick", FALSE)
    /\ UNCHANGED <<ac_forecasts, ac_realized, cvVars, enVars, scVars>>

NextAccuracy ==
    SaveForecast \/ SaveRealizedPrice \/ UpdateForecastAccuracy \/ Validate \/ Tick

SpecAccuracy == InitAccuracy /\ [][NextAccuracy]_vars

-----------------------------------------------------------------------------
(* Claims about the accuracy store, checked under SpecAccuracy              *)

\* the columns of a row that say what was forecast
Identity(f) == <<f.prediction_date, f.target_date, f.product_type, f.predicted_price>>

\* row f is unfilled
Unfilled(f) == f.actual_price = NULL /\ f.error = NULL /\ f.error_pct = NULL

\* C10: a row is created with actual_price null and mutated at most once, to
\* fill actual_price, error and error_pct together; once filled, no posted
\* realized price, update_with_actual call or validation run changes those
\* three columns; and no step removes a row.
C10_FilledOnce ==
    [][/\ Len(ac_forecasts') >= Len(ac_forecasts)
       /\ \A i \in 1..Len(ac_forecasts') :
             IF i > Len(ac_forecasts) THEN Unfilled(ac_forecasts'[i])
             ELSE /\ Identity(ac_forecasts'[i]) = Identity(ac_forecasts[i])
                  /\ ac_forecasts[i].actual_price # NULL =>
                        ac_forecasts'[i] = ac_forecasts[i]
                  /\ ac_forecasts[i].actual_price = NULL =>
                        \/ ac_forecasts'[i] = ac_forecasts[i]
                        \/ /\ ac_forecasts'[i].actual_price # NULL
                           /\ ac_forecasts'[i].error
                                 = ac_forecasts[i].predicted_price
                                     - ac_forecasts'[i].actual_price]_vars

\* an update_with_actual call has just offered another price for a target
\* date and product that already has a filled row
C10_Witness ==
    /\ ac_last = Last("update_with_actual", TRUE)
    /\ \E i \in 1..Len(ac_forecasts) : ac_forecasts[i].actual_price # NULL


\* a pending row of the validation run: unfilled, its target date come
PendingAt(f, today) == f.actual_price = NULL /\ f.target_date <= today

C12_ErrorColumns ==
    \A i \in 1..Len(ac_forecasts) :
        LET f == ac_forecasts[i]
        IN  f.actual_price # NULL /\ f.actual_price > 0 =>
               /\ f.error = f.predicted_price - f.actual_price
               /\ f.error_pct * f.actual_price
                     <= (f.predicted_price - f.actual_price) * 10000
               /\ (f.predicted_price - f.actual_price) * 10000
                     < (f.error_pct + 1) * f.actual_price
               /\ f.predicted_price = 1550 /\ f.actual_price = 1500 =>
                     f.error = 50 /\ f.error_pct = 333

\* the validation run filled a row that update_with_actual had left pending,
\* beside a row filled earlier: 1550 predicted, 1500 realized
C12_Witness ==
    /\ ac_last.op = "validate"
    /\ ac_last.updated = 1
    /\ Len(ac_forecasts) = 2
    /\ \A i \in 1..2 : ac_forecasts[i].actual_price # NULL
    /\ \E i \in 1..2 : ac_forecasts[i].actual_price = 1500 /\ ac_forecasts[i].error = 50

-----------------------------------------------------------------------------
(* src/src/scheduler.py : generate_forecast, and the creation of            *)
(* forecast_accuracy rows.  The ensemble is taken by its result: it raises, *)
(* or gives a point forecast with one value for each day of                 *)
(* pd.date_range(spot_date, periods=horizon_days).                          *)

\* horizons = [30, 60, 90, 120, 180, 270, 365] and horizon_days=365
ForecastHorizons == <<30, 60, 90, 120, 180, 270, 365>>
ForecastHorizonDays == 365

\* what ensemble.forecast gives generate_forecast for one product
EnsembleResults ==
    {[kind |-> "raise", base |-> 0, slope |-> 0]}
    \cup {[kind |-> "result", base |-> 1000, slope |-> s] : s \in {0, 1}}

\* the point forecast of a result for calendar day d, the axis starting at
\* spot_date (the day of the run)
PointOnDay(res, spot_date, d) == res.base + res.slope * (d - spot_date)

\* len(result.point_forecast)
PointLen(res) == ForecastHorizonDays

\* result.point_forecast.iloc[k]: position k counts from 0 at spot_date
PointIloc(res, spot_date, k) == PointOnDay(res, spot_date, spot_date + k)

\* the ForecastAccuracy(...) generate_forecast builds for horizon h
GeneratedRow(today, h, product, res) ==
    [prediction_date |-> today, target_date |-> today + h,
     product_type |-> product,
     predicted_price |-> PointIloc(res, today, h - 1),
     forecast_horizon_days |-> h,
     actual_price |-> NULL, error |-> NULL, error_pct |-> NULL]

RECURSIVE RowsForHorizons(_, _, _, _)
\* the loop over horizons from number k on: a horizon h with
\* h >= len(point_forecast) is passed over
RowsForHorizons(today, product, res, k) ==
    IF k > Len(ForecastHorizons) THEN <<>>
    ELSE LET h == ForecastHorizons[k]
             rest == RowsForHorizons(today, product, res, k + 1)
         IN  IF h >= PointLen(res) THEN rest
             ELSE <<GeneratedRow(today, h, product, res)>> \o rest

RECURSIVE generate_forecast(_, _, _, _, _)
\* the product loop of generate_forecast from product number p on: a product
\* without a curve, or whose ensemble call raised, is passed over; the rows
\* of the others are saved in bulk
generate_forecast(fs, today, curves, results, p) ==
    IF p > Len(Products) THEN fs
    ELSE LET product == Products[p]
             rows == IF product \notin curves \/ results[product].kind = "raise"
                     THEN <<>>
                     ELSE RowsForHorizons(today, product, results[product], 1)
         IN  generate_forecast(fs \o rows, today, curves, results, p + 1)

-----------------------------------------------------------------------------
(* Specification of row creation: ForecastRepository.save_forecast called   *)
(* with any pair of dates, and generate_forecast run on the day ac_today.   *)

\* dates a caller passes to save_forecast
CallDates == {0, 1}

InitRows ==
    /\ ac_today \in Days
    /\ ac_forecasts = <<>>
    /\ ac_realized = <<>>
    /\ ac_last = Last("none", FALSE)
    /\ CurveUnused
    /\ EnsembleIdle
    /\ SchedulerUnused

\* ForecastRepository.save_forecast(prediction_date, target_date, ...)
SaveForecastCall ==
    /\ Len(ac_forecasts) < MaxForecasts
    /\ \E prediction_date \in CallDates, target_date \in CallDates,
          product \in ProductSet, predicted \in PredictedPrices :
          ac_forecasts' = Append(ac_forecasts,
                                 NewForecast(prediction_date, target_date, product, predicted))
    /\ ac_last' = Last("save_forecast", FALSE)
    /\ UNCHANGED <<ac_today, ac_realized, cvVars, enVars, scVars>>

\* generate_forecast(): curves is the set of products that have a curve,
\* results what the ensemble gives for each product
GenerateForecast ==
    /\ Len(ac_forecasts) <= MaxForecasts
    /\ \E curves \in SUBSET ProductSet, results \in [ProductSet -> EnsembleResults] :
          /\ ac_forecasts' = generate_forecast(ac_forecasts, ac_today, curves, results, 1)
          /\ ac_last' = [op |-> "generate_forecast", met_filled |-> FALSE,
                         status |-> "success", updated |-> 0,
                         before |-> Len(ac_forecasts),
                         curves |-> curves, results |-> results]
    /\ UNCHANGED <<ac_today, ac_realized, cvVars, enVars, scVars>>

NextRows == SaveForecastCall \/ GenerateForecast

SpecRows == InitRows /\ [][NextRows]_vars

-----------------------------------------------------------------------------
(* Claims about row creation, checked under SpecRows                        *)

\* C13: every row created by save_forecast or by generate_forecast has
\* horizon_days equal to the days from prediction_date to target_date, and
\* that number is never negative, whatever dates the operation was given.
C13_HorizonDaysNonNegative ==
    \A i \in 1..Len(ac_forecasts) :
        /\ ac_forecasts[i].forecast_horizon_days
              = ac_forecasts[i].target_date - ac_forecasts[i].prediction_date
        /\ ac_forecasts[i].forecast_horizon_days >= 0

\* the rows the last generate_forecast run added for a product and horizon
RowsAdded(product, h) ==
    {i \in (ac_last.before + 1)..Len(ac_forecasts) :
        /\ ac_forecasts[i].product_type = product
        /\ ac_forecasts[i].prediction_date = ac_today
        /\ ac_forecasts[i].target_date = ac_today + h}

\* C14: generate_forecast saves, for each product that has a curve, one
\* pending row for each horizon h of 30, 60, 90, 120, 180, 270 and 365 days,
\* with target_date = prediction_date + h and predicted_price the ensemble's
\* point forecast for that target date.
C14_RowPerHorizon ==
    ac_last.op = "generate_forecast" =>
        \A product \in ac_last.curves :
            \A h \in {30, 60, 90, 120, 180, 270, 365} :
                /\ Cardinality(RowsAdded(product, h)) = 1
                /\ \A i \in RowsAdded(product, h) :
                      /\ Unfilled(ac_forecasts[i])
                      /\ ac_forecasts[i].predicted_price
                            = PointOnDay(ac_last.results[product], ac_today,
                                         ac_today + h)


-----------------------------------------------------------------------------
(* src/src/math/ensemble.py : AdaptiveEnsemble.learn_weights               *)
(* A MAPE is a fraction num/den, or infinity when there were no errors.     *)

Infinity == [inf |-> TRUE, num |-> 0, den |-> 1]

\* a < b on floats with inf: inf < inf is false
LessThan(a, b) ==
    IF a.inf THEN FALSE
    ELSE IF b.inf THEN TRUE
    ELSE a.num * b.den < b.num * a.den

AbsDiff(a, b) == IF a >= b THEN a - b ELSE b - a

RECURSIVE GCD(_, _)
GCD(a, b) == IF b = 0 THEN a ELSE GCD(b, a % b)

\* the fraction num/den in lowest terms
Fraction(num, den) ==
    LET g == GCD(num, den)
    IN  [num |-> num \div g, den |-> den \div g]

\* curve.get(target_date, curve.iloc[-1])
CurveGet(curve, target_date) ==
    IF target_date \in DOMAIN curve THEN curve[target_date]
    ELSE curve[MaxOfSet(DOMAIN curve)]

RECURSIVE SumErrors(_, _, _, _)
\* the sum of abs(predicted - actual) / actual * 100 over the snapshots whose
\* target date has a realized price, as a fraction, with the number of terms
SumErrors(snapshots, historical_curves, realized_prices, horizon) ==
    IF snapshots = {} THEN [num |-> 0, den |-> 1, n |-> 0]
    ELSE LET snapshot_date == CHOOSE s \in snapshots : TRUE
             rest == SumErrors(snapshots \ {snapshot_date}, historical_curves,
                               realized_prices, horizon)
             target_date == snapshot_date + horizon
         IN  IF target_date \notin DOMAIN realized_prices THEN rest
             ELSE LET predicted == CurveGet(historical_curves[snapshot_date], target_date)
                      actual == realized_prices[target_date]
                      error == Fraction(AbsDiff(predicted, actual) * 100, actual)
                      total == Fraction(rest.num * error.den + error.num * rest.den,
                                        rest.den * error.den)
                  IN  [num |-> total.num, den |-> total.den, n |-> rest.n + 1]

\* _evaluate_weights: np.mean(errors) if errors else inf; the weights
\* argument is not read
evaluate_weights(weights, historical_curves, realized_prices, horizon) ==
    LET e == SumErrors(DOMAIN historical_curves, historical_curves,
                       realized_prices, horizon)
    IN  IF e.n = 0 THEN Infinity
        ELSE [inf |-> FALSE, num |-> Fraction(e.num, e.den * e.n).num,
              den |-> Fraction(e.num, e.den * e.n).den]

\* weight_options, in hundredths
weight_options == <<10, 20, 30, 40, 50, 60>>

\* the k-th pair of product(weight_options, repeat=2) with w3 = 1.0 - w1 - w2
TestWeights(k) ==
    LET w1 == weight_options[((k - 1) \div Len(weight_options)) + 1]
        w2 == weight_options[((k - 1) % Len(weight_options)) + 1]
    IN  [w |-> [futures_curve |-> w1, statistical |-> w2,
                mean_reversion |-> WeightUnit - w1 - w2],
         den |-> WeightUnit]

\* "if w3 < 0.05: continue"
MinimumWeight(test_weights) == test_weights.w.mean_reversion * 20 >= WeightUnit

RECURSIVE GridSearch(_, _, _, _, _, _)
\* the loop over product(weight_options, repeat=2) from the k-th pair on,
\* entered with best_mape and best_weights
GridSearch(historical_curves, realized_prices, validation_horizon, k, best_mape, best_weights) ==
    IF k > Len(weight_options) * Len(weight_options) THEN best_weights
    ELSE IF ~MinimumWeight(TestWeights(k))
    THEN GridSearch(historical_curves, realized_prices, validation_horizon,
                    k + 1, best_mape, best_weights)
    ELSE IF LessThan(evaluate_weights(TestWeights(k), historical_curves,
                                      realized_prices, validation_horizon),
                     best_mape)
    THEN GridSearch(historical_curves, realized_prices, validation_horizon,
                    k + 1,
                    evaluate_weights(TestWeights(k), historical_curves,
                                     realized_prices, validation_horizon),
                    TestWeights(k))
    ELSE GridSearch(historical_curves, realized_prices, validation_horizon,
                    k + 1, best_mape, best_weights)

\* learn_weights: best_mape = inf and best_weights = self.weights.copy(), then
\* the grid search; best_weights is returned
learn_weights(self, historical_curves, realized_prices, validation_horizon) ==
    GridSearch(historical_curves, realized_prices, validation_horizon, 1,
               Infinity, self.weights)

\* the arguments of the model: the default weights or a configured split,
\* curves of one or two days, snapshots on days 0 and 1, realized prices on
\* days 1 and 2
LearnWeightArgs == {<<>>, [futures_curve |-> 70, statistical |-> 20, mean_reversion |-> 10]}
SnapshotCurves == UNION {[D -> {900, 1100}] : D \in {{1}, {1, 2}, {2, 3}}}
HistoricalCurves == UNION {[S -> SnapshotCurves] : S \in SUBSET {0, 1}}
RealizedSeries == UNION {[D -> {1000, 1100}] : D \in SUBSET {1, 2}}
ValidationHorizons == {1, 2}

InitLearn ==
    /\ en_pc = "new"
    /\ en_in \in [weights : LearnWeightArgs,
                  long_term_mean : {DefaultLongTermMean},
                  adapt_weights : {FALSE},
                  historical_curves : HistoricalCurves,
                  realized_prices : RealizedSeries,
                  validation_horizon : ValidationHorizons]
    /\ en_self = Idle
    /\ en_run = Idle
    /\ en_out = Idle
    /\ CurveUnused
    /\ AccuracyUnused
    /\ SchedulerUnused

\* adaptive.learn_weights(historical_curves, realized_prices, validation_horizon)
LearnWeights ==
    /\ en_pc = "ready"
    /\ en_out' = learn_weights(en_self, en_in.historical_curves,
                               en_in.realized_prices, en_in.validation_horizon)
    /\ en_run' = [learned_weights |-> en_out']
    /\ en_pc' = "learned"
    /\ UNCHANGED <<en_in, en_self, cvVars, acVars, scVars>>

NextLearn == Construct \/ LearnWeights

SpecLearn == InitLearn /\ [][NextLearn]_vars

\* the pairs of the grid whose third weight is at least 0.05
Lattice == {k \in 1..(Len(weight_options) * Len(weight_options)) :
               MinimumWeight(TestWeights(k))}

\* the MAPE the search gives the k-th pair
MapeOf(k) ==
    evaluate_weights(TestWeights(k), en_in.historical_curves,
                     en_in.realized_prices, en_in.validation_horizon)

\* C20: learn_weights returns a combination of the lattice with no weight
\* below 0.05 whose MAPE is the lowest, the first such combination in grid
\* order, and the returned weights sum to 1.
C20_LearnedWeightsAreBestOfLattice ==
    en_pc = "learned" =>
        /\ SumKeys(en_out.w, DOMAIN en_out.w) = en_out.den
        /\ \E k \in Lattice :
              /\ en_out = TestWeights(k)
              /\ \A j \in Lattice :
                    /\ ~LessThan(MapeOf(j), MapeOf(k))
                    /\ j < k => LessThan(MapeOf(k), MapeOf(j))

-----------------------------------------------------------------------------
(* src/src/math/accuracy.py : the naive forecast and the accuracy metrics   *)
(* A Series is a function from its labels (days) to prices or NaN; the      *)
(* historical prices are daily, so a position is a day.                     *)

\* Series.shift(periods): the value at each label is the one periods
\* positions before it, NaN where there is none
shift(s, periods) ==
    [t \in DOMAIN s |-> IF (t - periods) \in DOMAIN s THEN s[t - periods] ELSE NaN]

\* create_naive_forecast: historical_prices.shift(-horizon)
create_naive_forecast(historical_prices, horizon) ==
    shift(historical_prices, 0 - horizon)

\* pd.concat([predictions, actuals], axis=1, keys=['pred', 'actual']): the
\* outer join on the index
concat(predictions, actuals) ==
    [l \in (DOMAIN predictions) \cup (DOMAIN actuals) |->
        [pred |-> IF l \in DOMAIN predictions THEN predictions[l] ELSE NaN,
         actual |-> IF l \in DOMAIN actuals THEN actuals[l] ELSE NaN]]

\* DataFrame.dropna(): the rows without a missing value
dropna(frame) ==
    [l \in {k \in DOMAIN frame : frame[k].pred # NaN /\ frame[k].actual # NaN} |->
        frame[l]]

\* mutant of EmptyMetric: zero for an empty frame
EmptyMetric_zero == [nan |-> FALSE, n |-> 0, num |-> 0, den |-> 1]

\* "if len(aligned) == 0: return float('nan')"
EmptyMetric == [nan |-> TRUE, n |-> 0, num |-> 0, den |-> 1]

RECURSIVE SumPercentageErrors(_, _)
\* sum of abs((actual - pred) / actual) * 100 over the rows, as a fraction
SumPercentageErrors(aligned, rows) ==
    IF rows = {} THEN [num |-> 0, den |-> 1]
    ELSE LET l == CHOOSE k \in rows : TRUE
             rest == SumPercentageErrors(aligned, rows \ {l})
             e == Fraction(AbsDiff(aligned[l].actual, aligned[l].pred) * 100,
                           aligned[l].actual)
         IN  Fraction(rest.num * e.den + e.num * rest.den, rest.den * e.den)

RECURSIVE SumSquaredErrors(_, _)
SumSquaredErrors(aligned, rows) ==
    IF rows = {} THEN 0
    ELSE LET l == CHOOSE k \in rows : TRUE
         IN  (aligned[l].actual - aligned[l].pred) * (aligned[l].actual - aligned[l].pred)
                + SumSquaredErrors(aligned, rows \ {l})

RECURSIVE SumErrorsSigned(_, _)
SumErrorsSigned(aligned, rows) ==
    IF rows = {} THEN 0
    ELSE LET l == CHOOSE k \in rows : TRUE
         IN  (aligned[l].pred - aligned[l].actual) + SumErrorsSigned(aligned, rows \ {l})

\* calculate_mape: the mean absolute percentage error, num/den percent
calculate_mape(predictions, actuals) ==
    LET aligned == dropna(concat(predictions, actuals))
        n == Cardinality(DOMAIN aligned)
        total == SumPercentageErrors(aligned, DOMAIN aligned)
    IN  IF n = 0 THEN EmptyMetric
        ELSE [nan |-> FALSE, n |-> n, num |-> total.num, den |-> total.den * n]

\* calculate_rmse: the root of the mean squared error, in tenths of a dollar
\* (num/den with den = 10)
calculate_rmse(predictions, actuals) ==
    LET aligned == dropna(concat(predictions, actuals))
        n == Cardinality(DOMAIN aligned)
    IN  IF n = 0 THEN EmptyMetric
        ELSE [nan |-> FALSE, n |-> n,
              num |-> ISqrt((SumSquaredErrors(aligned, DOMAIN aligned) * 100) \div n),
              den |-> 10]

\* calculate_bias: the mean of pred - actual
calculate_bias(predictions, actuals) ==
    LET aligned == dropna(concat(predictions, actuals))
        n == Cardinality(DOMAIN aligned)
    IN  IF n = 0 THEN EmptyMetric
        ELSE [nan |-> FALSE, n |-> n,
              num |-> SumErrorsSigned(aligned, DOMAIN aligned), den |-> n]

\* the arguments of the model: daily histories of one to three prices and a
\* horizon of zero to two days; predicted and actual series on days 0 and 1
\* that may hold a missing value
NaiveInputs ==
    [op : {"create_naive_forecast"},
     historical_prices : UNION {[0..(n - 1) -> {1000, 1100}] : n \in 1..3},
     horizon : 0..2]
MetricSeries == UNION {[D -> {1000, 1100, NaN}] : D \in SUBSET {0, 1}}
MetricInputs ==
    [op : {"metrics"}, predictions : MetricSeries, actuals : MetricSeries]

InitMetrics ==
    /\ en_pc = "input"
    /\ en_in \in NaiveInputs \cup MetricInputs
    /\ en_self = Idle
    /\ en_run = Idle
    /\ en_out = Idle
    /\ CurveUnused
    /\ AccuracyUnused
    /\ SchedulerUnused

CreateNaiveForecast ==
    /\ en_pc = "input"
    /\ en_in.op = "create_naive_forecast"
    /\ en_out' = create_naive_forecast(en_in.historical_prices, en_in.horizon)
    /\ en_pc' = "naive"
    /\ UNCHANGED <<en_in, en_self, en_run, cvVars, acVars, scVars>>

CalculateMetrics ==
    /\ en_pc = "input"
    /\ en_in.op = "metrics"
    /\ en_out' = [mape |-> calculate_mape(en_in.predictions, en_in.actuals),
                  rmse |-> calculate_rmse(en_in.predictions, en_in.actuals),
                  bias |-> calculate_bias(en_in.predictions, en_in.actuals)]
    /\ en_pc' = "metrics"
    /\ UNCHANGED <<en_in, en_self, en_run, cvVars, acVars, scVars>>

NextMetrics == CreateNaiveForecast \/ CalculateMetrics

SpecMetrics == InitMetrics /\ [][NextMetrics]_vars

\* C21: the naive forecast for the day horizon days after t is the price of
\* day t, for every day t of the history whose target day is on the index.
C21_NaiveIsNoChange ==
    en_pc = "naive" =>
        \A t \in DOMAIN en_in.historical_prices :
            (t + en_in.horizon) \in DOMAIN en_out =>
                en_out[t + en_in.horizon] = en_in.historical_prices[t]

\* the labels that carry a value in both series
Overlap ==
    {l \in (DOMAIN en_in.predictions) \cap (DOMAIN en_in.actuals) :
        en_in.predictions[l] # NaN /\ en_in.actuals[l] # NaN}

\* the sum of f over a set of at most two labels
SumOverlap(f(_)) ==
    IF Overlap = {} THEN 0
    ELSE IF Cardinality(Overlap) = 1 THEN f(CHOOSE l \in Overlap : TRUE)
    ELSE f(MinOfSet(Overlap)) + f(MaxOfSet(Overlap))

\* C22: MAPE, RMSE and bias are NaN when no label carries a value in both
\* series, and otherwise are the means over exactly the labels that do.
C22_MetricsOverOverlap ==
    en_pc = "metrics" =>
        LET n == Cardinality(Overlap)
            diff(l) == en_in.predictions[l] - en_in.actuals[l]
            square(l) == diff(l) * diff(l)
            \* the percentage errors over the common denominator 11000
            pct(l) == (AbsDiff(en_in.predictions[l], en_in.actuals[l]) * 100 * 11000)
                         \div en_in.actuals[l]
        IN  IF n = 0
            THEN en_out.mape.nan /\ en_out.rmse.nan /\ en_out.bias.nan
            ELSE /\ ~en_out.mape.nan /\ ~en_out.rmse.nan /\ ~en_out.bias.nan
                 /\ en_out.mape.n = n /\ en_out.rmse.n = n /\ en_out.bias.n = n
                 /\ en_out.bias.num = SumOverlap(diff) /\ en_out.bias.den = n
                 /\ en_out.mape.num * 11000 * n = SumOverlap(pct) * en_out.mape.den
                 /\ en_out.rmse.num = ISqrt((SumOverlap(square) * 100) \div n)

\* both series hold values and share a label, but on no label do both hold a
\* value: the metrics were computed and are NaN
C22_Witness ==
    /\ en_pc = "metrics"
    /\ Overlap = {}
    /\ (DOMAIN en_in.predictions) \cap (DOMAIN en_in.actuals) # {}
    /\ \E l \in DOMAIN en_in.predictions : en_in.predictions[l] # NaN
    /\ \E l \in DOMAIN en_in.actuals : en_in.actuals[l] # NaN
    /\ en_out.mape.nan /\ en_out.rmse.nan /\ en_out.bias.nan

-----------------------------------------------------------------------------
(* src/src/etl/models.py : MarketContract                                   *)
(* A ticker is the sequence of the pieces it is written with; the regular   *)
(* expression of validate_ticker finds a code when one of the pieces, in    *)
(* upper case, is that code.                                                *)

TickerPieces == {"NBSK", "BEK", "BHKP", "EUCALYPTUS", "nbsk", "PIX", "-OLD", "-26Z"}

\* str.upper() on the pieces of the model
upper(piece) == IF piece = "nbsk" THEN "NBSK" ELSE piece

\* re.search(r'(NBSK|BEK|BHKP|EUCALYPTUS)', v)
AcceptedCodes == {"NBSK", "BEK", "BHKP", "EUCALYPTUS"}

\* validate_ticker: the error it raises, if any
validate_ticker(ticker) ==
    IF \E i \in 1..Len(ticker) : upper(ticker[i]) \in AcceptedCodes
    THEN {}
    ELSE {"Unknown Contract Type in ticker"}

\* validate_product_type (mode='before')
validate_product_type(v) ==
    IF v \notin {"NBSK", "BEK"} THEN {"Invalid product type"} ELSE {}

\* period_type: Literal["Monthly", "Quarterly", "Calendar"]
validate_period_type(v) ==
    IF v \notin {"Monthly", "Quarterly", "Calendar"} THEN {"literal_error"} ELSE {}

\* price: float = Field(..., gt=0)
validate_price(v) == IF v > 0 THEN {} ELSE {"greater_than"}

\* MarketContract(...): the model, or the ValidationError (a ValueError) that
\* carries the messages of all failed fields
MarketContract(fields) ==
    LET errors == validate_ticker(fields.ticker)
                    \cup validate_product_type(fields.product_type)
                    \cup validate_period_type(fields.period_type)
                    \cup validate_price(fields.price)
    IN  IF errors = {}
        THEN [raised |-> FALSE, errors |-> {},
              ticker |-> [i \in 1..Len(fields.ticker) |-> upper(fields.ticker[i])],
              product_type |-> fields.product_type,
              period_type |-> fields.period_type, price |-> fields.price]
        ELSE [raised |-> TRUE, errors |-> errors]

Tickers == UNION {[1..n -> TickerPieces] : n \in 1..2}

InitContract ==
    /\ cv_pc = "input"
    /\ cv_in \in [ticker : Tickers, product_type : {"NBSK", "BEK", "BHKP"},
                  period_type : PeriodTypes, price : {0, 800}]
    /\ cv_out = CurveIdle
    /\ EnsembleIdle
    /\ AccuracyUnused
    /\ SchedulerUnused

NewMarketContract ==
    /\ cv_pc = "input"
    /\ cv_out' = MarketContract(cv_in)
    /\ cv_pc' = "done"
    /\ UNCHANGED <<cv_in, enVars, acVars, scVars>>

NextContract == NewMarketContract

SpecContract == InitContract /\ [][NextContract]_vars

\* C23: constructing a MarketContract whose ticker carries the legacy code
\* BHKP raises a ValueError whose message contains "Legacy Ticker Detected".
C23_LegacyTickerRejected ==
    (cv_pc = "done" /\ \E i \in 1..Len(cv_in.ticker) : upper(cv_in.ticker[i]) = "BHKP") =>
        /\ cv_out.raised
        /\ "Legacy Ticker Detected" \in cv_out.errors

-----------------------------------------------------------------------------
(* src/src/scheduler.py : the job history                                   *)
(* The timestamp of an entry is the number of the _record call that made it. *)

\* _MAX_HISTORY
MAX_HISTORY == 50

\* what get_last_run returns when no entry of the job is in the history
None == [job |-> "none", status |-> "none", timestamp |-> 0]

\* mutant of record: the newest entry is evicted
record_evict_newest(history, job_name, status, now) ==
    LET appended == Append(history, [job |-> job_name, status |-> status,
                                     timestamp |-> now])
    IN  IF Len(appended) > MAX_HISTORY
        THEN SubSeq(appended, 1, Len(appended) - 1)
        ELSE appended

\* _record: append the entry, then pop(0) when the list is longer than
\* _MAX_HISTORY
record(history, job_name, status, now) ==
    LET appended == Append(history, [job |-> job_name, status |-> status,
                                     timestamp |-> now])
    IN  IF Len(appended) > MAX_HISTORY THEN Tail(appended) ELSE appended

\* get_last_run: the first entry of the job in reversed(_job_history)
get_last_run(history, job_name) ==
    LET own == {i \in 1..Len(history) : history[i].job = job_name}
    IN  IF own = {} THEN None ELSE history[MaxOfSet(own)]

\* the calls of the model: at most MaxCalls calls of _record, of which the
\* history holds at most two of validate_forecasts at a time
MaxCalls == 53
JobNames == {"generate_curves", "validate_forecasts"}

InitHistory ==
    /\ sc_pc = [calls |-> 0, asked |-> "none", last_run |-> None]
    /\ sc_snapshots = <<>>
    /\ sc_history = <<>>
    /\ CurveUnused
    /\ EnsembleIdle
    /\ AccuracyUnused

\* _record(job_name, status)
Record ==
    /\ sc_pc.calls < MaxCalls
    /\ \E job_name \in JobNames :
          /\ job_name = "validate_forecasts" =>
                Cardinality({i \in 1..Len(sc_history) :
                                sc_history[i].job = "validate_forecasts"}) < 2
          /\ sc_history' = record(sc_history, job_name,
                                  IF job_name = "generate_curves" THEN "success"
                                  ELSE "error",
                                  sc_pc.calls + 1)
    /\ sc_pc' = [calls |-> sc_pc.calls + 1, asked |-> "none", last_run |-> None]
    /\ UNCHANGED <<sc_snapshots, cvVars, enVars, acVars>>

\* get_last_run(job_name)
GetLastRun ==
    /\ sc_pc.asked = "none"
    /\ \E job_name \in JobNames :
          sc_pc' = [calls |-> sc_pc.calls, asked |-> job_name,
                    last_run |-> get_last_run(sc_history, job_name)]
    /\ UNCHANGED <<sc_snapshots, sc_history, cvVars, enVars, acVars>>

NextHistory == Record \/ GetLastRun

SpecHistory == InitHistory /\ [][NextHistory]_vars

\* C27: the history holds at most 50 entries, the most recent calls in call
\* order, and get_last_run gives the latest retained entry of the job, or
\* None when the history holds no entry of the job.
C27_HistoryKeepsMostRecent ==
    LET kept == Len(sc_history)
    IN  /\ kept <= 50
        /\ kept = Min2(sc_pc.calls, 50)
        /\ \A i \in 1..kept : sc_history[i].timestamp = sc_pc.calls - kept + i
        /\ sc_pc.asked # "none" =>
              LET own == {i \in 1..kept : sc_history[i].job = sc_pc.asked}
              IN  IF own = {} THEN sc_pc.last_run = None
                  ELSE /\ sc_pc.last_run.job = sc_pc.asked
                       /\ sc_pc.last_run \in {sc_history[i] : i \in own}
                       /\ \A i \in own :
                             sc_history[i].timestamp <= sc_pc.last_run.timestamp

\* more than 50 calls were made, the entries of validate_forecasts were
\* evicted, and get_last_run was asked for that job
C27_Witness ==
    /\ sc_pc.calls > 50
    /\ Len(sc_history) = 50
    /\ sc_pc.asked = "validate_forecasts"
    /\ sc_pc.last_run = None
    /\ sc_history[1].timestamp > 1

-----------------------------------------------------------------------------
(* src/src/scheduler.py : generate_curves_from_contracts                    *)
(* Two runs may be under way at once: the daily pipeline on the event loop  *)
(* and an injection in a worker thread.  A run takes one step per database  *)
(* transaction.  A scraped contract is held with the block that             *)
(* create_blocks_from_market_contracts makes of it, in day numbers.         *)

Runs == {"daily_pipeline", "inject_contracts"}

\* SplineBounds(min_price=500, max_price=1200) for NBSK, (400, 1000) for BEK
ProductBounds(product) ==
    IF product = "NBSK" THEN [min_price |-> 500, max_price |-> 1200]
    ELSE [min_price |-> 400, max_price |-> 1000]

\* MarketRepository.get_latest_snapshot_date: the latest snapshot_date of the
\* table, whatever the product (NULL for an empty table)
get_latest_snapshot_date(snapshots) ==
    IF snapshots = <<>> THEN NULL
    ELSE MaxOfSet({snapshots[i].snapshot_date : i \in 1..Len(snapshots)})

\* MarketRepository.get_curve_by_date: the rows of (snapshot_date, product)
get_curve_by_date(snapshots, snapshot_date, product_type) ==
    LET Wanted(row) == /\ row.snapshot_date = snapshot_date
                       /\ row.product_type = product_type
    IN  SelectSeq(snapshots, Wanted)

\* the rows of the latest snapshot date on which the product itself has rows
get_latest_curve_own(snapshots, product_type) ==
    LET Own(row) == row.product_type = product_type
        own == SelectSeq(snapshots, Own)
    IN  IF own = <<>> THEN <<>>
        ELSE get_curve_by_date(snapshots, get_latest_snapshot_date(own), product_type)

\* MarketRepository.get_latest_curve
get_latest_curve(snapshots, product_type) ==
    LET latest_date == get_latest_snapshot_date(snapshots)
    IN  IF latest_date = NULL THEN <<>>
        ELSE get_curve_by_date(snapshots, latest_date, product_type)

\* delete(MarketSnapshot).where(snapshot_date == ..., product_type == ...)
delete_snapshots(snapshots, snapshot_date, product_type) ==
    LET Kept(row) == ~(/\ row.snapshot_date = snapshot_date
                       /\ row.product_type = product_type)
    IN  SelectSeq(snapshots, Kept)

\* the MarketSnapshot rows of a curve, in the order of curve.items()
CurveRows(curve, snapshot_date, product_type) ==
    LET first == MinOfSet(DOMAIN curve)
    IN  [k \in 1..Cardinality(DOMAIN curve) |->
            [snapshot_date |-> snapshot_date, contract_date |-> first + k - 1,
             product_type |-> product_type, price |-> curve[first + k - 1]]]

\* mutant of is_flat: no curve is taken for flat
is_flat_never(curve) == FALSE

\* "len(curve) > 1 and curve.max() - curve.min() < 0.01", on whole dollars
is_flat(curve) ==
    /\ Cardinality(DOMAIN curve) > 1
    /\ \A d, e \in DOMAIN curve : curve[d] = curve[e]

\* [c for c in contracts if c.product_type == product]
ProductContracts(contracts, product) ==
    LET Of(c) == c.product_type = product
    IN  SelectSeq(contracts, Of)

\* create_blocks_from_market_contracts(product_contracts), sorted by start
ProductBlocks(product_contracts) ==
    SortByStart([k \in 1..Len(product_contracts) |->
                    [start_date |-> product_contracts[k].start_date,
                     end_date |-> product_contracts[k].end_date,
                     price |-> product_contracts[k].price]])

\* the contract lists of the model
NbskFront == [product_type |-> "NBSK", start_date |-> 0, end_date |-> 0, price |-> 1000]
NbskNext == [product_type |-> "NBSK", start_date |-> 1, end_date |-> 2, price |-> 1100]
NbskFlat == [product_type |-> "NBSK", start_date |-> 0, end_date |-> 1, price |-> 1000]
BekFront == [product_type |-> "BEK", start_date |-> 0, end_date |-> 0, price |-> 900]
BekNext == [product_type |-> "BEK", start_date |-> 1, end_date |-> 2, price |-> 1000]
ContractInputs ==
    {<<>>, <<NbskFront, NbskNext>>, <<NbskFlat>>, <<BekFront, BekNext>>,
     <<NbskFront, NbskNext, BekFront, BekNext>>, <<NbskFront>>}

\* the table before the runs: empty, or the curves of both products saved
\* the day before
StoredBefore ==
    {<<>>,
     CurveRows((0 :> 1000 @@ 1 :> 1100), 0 - 1, "NBSK")
        \o CurveRows((0 :> 900 @@ 1 :> 1000), 0 - 1, "BEK")}

NoOutcome == [p \in ProductSet |-> "none"]

NotStarted(contracts) ==
    [pc |-> "idle", contracts |-> contracts, i |-> 1, success |-> TRUE,
     curve |-> NoCurve, outcome |-> NoOutcome]

InitScheduler ==
    /\ sc_pc \in [Runs -> {NotStarted(c) : c \in ContractInputs}]
    /\ sc_snapshots \in StoredBefore
    /\ sc_history = <<>>
    /\ CurveUnused
    /\ EnsembleIdle
    /\ AccuracyUnused

\* the run r moves on with the fields in change replaced
Step(r, change) ==
    sc_pc' = [sc_pc EXCEPT ![r] = change @@ sc_pc[r]]

\* _record("generate_curves", "running"); init_db(); session = SessionLocal():
\* the two calls are outside the try, so an error there leaves the function
StartRun(r) ==
    /\ sc_pc[r].pc = "idle"
    /\ sc_history' = record(sc_history, "generate_curves", "running",
                            Len(sc_history) + 1)
    /\ \E db_ok \in BOOLEAN :
          Step(r, [pc |-> IF db_ok THEN "product" ELSE "raised"])
    /\ UNCHANGED <<sc_snapshots, cvVars, enVars, acVars>>

\* one pass of "for product in [NBSK, BEK]" up to the commit of the delete
BuildProduct(r) ==
    /\ sc_pc[r].pc = "product"
    /\ sc_pc[r].i <= Len(Products)
    /\ LET product == Products[sc_pc[r].i]
           product_contracts == ProductContracts(sc_pc[r].contracts, product)
           Continue(outcome, success) ==
               /\ Step(r, [i |-> sc_pc[r].i + 1, success |-> success,
                           outcome |-> [sc_pc[r].outcome EXCEPT ![product] = outcome]])
               /\ UNCHANGED sc_snapshots
       IN  IF product_contracts = <<>>
           THEN IF get_latest_curve(sc_snapshots, product) # <<>>
                THEN Continue("kept_existing", sc_pc[r].success)
                ELSE Continue("no_curve", sc_pc[r].success)
           ELSE \E built \in build_curve(ac_today, product_contracts[1].price,
                                         ProductBounds(product),
                                         ProductBlocks(product_contracts)) :
                   IF built.kind = "raise"
                   THEN Continue("raised", FALSE)
                   ELSE IF is_flat(built.curve)
                   THEN Continue("flat", sc_pc[r].success)
                   ELSE /\ sc_snapshots' = delete_snapshots(sc_snapshots, ac_today, product)
                        /\ Step(r, [pc |-> "save", curve |-> built.curve])
    /\ UNCHANGED <<sc_history, cvVars, enVars, acVars>>

\* market_repo.save_snapshot(snapshots): add_all and commit
SaveCurve(r) ==
    /\ sc_pc[r].pc = "save"
    /\ LET product == Products[sc_pc[r].i]
       IN  /\ sc_snapshots' = sc_snapshots \o CurveRows(sc_pc[r].curve, ac_today, product)
           /\ Step(r, [pc |-> "product", i |-> sc_pc[r].i + 1,
                       outcome |-> [sc_pc[r].outcome EXCEPT ![product] = "saved"]])
    /\ UNCHANGED <<sc_history, cvVars, enVars, acVars>>

\* _record("generate_curves", "success" if success else "partial"); return
FinishRun(r) ==
    /\ sc_pc[r].pc = "product"
    /\ sc_pc[r].i > Len(Products)
    /\ sc_history' = record(sc_history, "generate_curves",
                            IF sc_pc[r].success THEN "success" ELSE "partial",
                            Len(sc_history) + 1)
    /\ Step(r, [pc |-> "done"])
    /\ UNCHANGED <<sc_snapshots, cvVars, enVars, acVars>>

NextScheduler ==
    \E r \in Runs : StartRun(r) \/ BuildProduct(r) \/ SaveCurve(r) \/ FinishRun(r)

SpecScheduler == InitScheduler /\ [][NextScheduler]_vars

\* the rows stored for today's snapshot of a product
TodayRows(snapshots, product) == get_curve_by_date(snapshots, ac_today, product)

\* the curves build_curve may return for the contracts of run r and a product
BuiltCurves(r, product) ==
    LET product_contracts == ProductContracts(sc_pc[r].contracts, product)
    IN  IF product_contracts = <<>> THEN {}
        ELSE {b.curve : b \in {c \in build_curve(ac_today, product_contracts[1].price,
                                                 ProductBounds(product),
                                                 ProductBlocks(product_contracts)) :
                                  c.kind = "curve"}}

\* a curve of more than one day whose values are all the same
Degenerate(curve) ==
    \E d, e \in DOMAIN curve : d # e /\ \A f \in DOMAIN curve : curve[f] = curve[d]

\* C24: a step changes the rows stored for (today, product) only if it is the
\* delete or the save of a run that built a curve for that product from its
\* contracts and the curve is not degenerate; after a failed build or a
\* flat curve the rows stay as they were.
C24_StoredRowsKept ==
    [][\A product \in ProductSet :
          TodayRows(sc_snapshots', product) # TodayRows(sc_snapshots, product) =>
              \E r \in Runs :
                  LET at == IF sc_pc'[r].pc = "save" THEN sc_pc'[r] ELSE sc_pc[r]
                  IN  /\ at.pc = "save"
                      /\ Products[at.i] = product
                      /\ at.curve \in BuiltCurves(r, product)
                      /\ ~Degenerate(at.curve)]_vars

\* a run met a flat curve for NBSK, another had a build of NBSK fail or saved
\* its curve, and rows of today's NBSK snapshot are in the table
C24_Witness ==
    /\ \E r \in Runs : sc_pc[r].outcome["NBSK"] = "flat"
    /\ \E r \in Runs : sc_pc[r].outcome["NBSK"] = "saved"
    /\ \E r \in Runs : sc_pc[r].outcome["BEK"] = "raised"
    /\ TodayRows(sc_snapshots, "NBSK") # <<>>

\* no run is between its delete and its save
NoSaveUnderWay == \A r \in Runs : sc_pc[r].pc # "save"

\* C25: whenever a product has rows in the table, get_latest_curve returns
\* rows for it, those of the product's own latest snapshot date.
C25_LatestCurveOfProduct ==
    NoSaveUnderWay =>
        \A product \in ProductSet :
            (\E i \in 1..Len(sc_snapshots) : sc_snapshots[i].product_type = product) =>
                /\ get_latest_curve(sc_snapshots, product) # <<>>
                /\ get_latest_curve(sc_snapshots, product)
                       = get_latest_curve_own(sc_snapshots, product)

\* every run that started has ended
AllRunsEnded ==
    /\ \A r \in Runs : sc_pc[r].pc \in {"idle", "done", "raised"}
    /\ \E r \in Runs : sc_pc[r].pc # "idle"

\* C26: once the runs of the day have ended, the table holds at most one row
\* per (snapshot_date, product_type, contract_date).
C26_OneRowPerKey ==
    AllRunsEnded =>
        \A i, j \in 1..Len(sc_snapshots) :
            (/\ sc_snapshots[i].snapshot_date = sc_snapshots[j].snapshot_date
             /\ sc_snapshots[i].product_type = sc_snapshots[j].product_type
             /\ sc_snapshots[i].contract_date = sc_snapshots[j].contract_date) => i = j

\* C28: once the runs that recorded "running" have ended, the last entry of
\* the job is a terminal one, not "running".
C28_RunningIsFollowedByTerminal ==
    AllRunsEnded => get_last_run(sc_history, "generate_curves").status # "running"

-----------------------------------------------------------------------------
(* src/src/etl/scraper.py : HybridScraper.run                               *)
(* What each strategy does when called is fixed by the site and the host:   *)
(* it raises, or returns a list of contracts that may be empty.             *)

Strategies == <<"api", "html", "playwright">>

StrategyOutcomes ==
    [raises : {TRUE}, contracts : {<<>>}]
        \cup [raises : {FALSE},
              contracts : {<<>>, <<"NBSK MAR26">>, <<"NBSK MAR26", "BEK Q226">>}]

\* the values of ENABLE_PLAYWRIGHT in the model ("" when it is not set)
EnvValues == {"", "0", "1", "TRUE", "yes"}

\* str.lower() on the values of the model
lower(value) == IF value = "TRUE" THEN "true" ELSE value

\* mutant of playwright_enabled: the fallback is always tried
playwright_always(env) == TRUE

\* os.environ.get("ENABLE_PLAYWRIGHT", "").lower() in ("1", "true", "yes")
playwright_enabled(env) == lower(env) \in {"1", "true", "yes"}

InitScraper ==
    /\ sc_pc \in [pc : {"api"}, env : EnvValues,
                  site : [{"api", "html", "playwright"} -> StrategyOutcomes],
                  called : {<<>>}, returned : {<<>>}]
    /\ sc_snapshots = <<>>
    /\ sc_history = <<>>
    /\ CurveUnused
    /\ EnsembleIdle
    /\ AccuracyUnused

\* one "try: contracts = await self._fetch_via_...(); if contracts: return
\* contracts; except Exception: ..." block; next is where run goes on
TryStrategy(strategy, next) ==
    LET outcome == sc_pc.site[strategy]
        called == Append(sc_pc.called, strategy)
    IN  IF ~outcome.raises /\ outcome.contracts # <<>>
        THEN sc_pc' = [sc_pc EXCEPT !.pc = "returned", !.called = called,
                                    !.returned = outcome.contracts]
        ELSE sc_pc' = [sc_pc EXCEPT !.pc = next, !.called = called]

\* Strategy 1: direct API
FetchViaApi ==
    /\ sc_pc.pc = "api"
    /\ TryStrategy("api", "html")
    /\ UNCHANGED <<sc_snapshots, sc_history, cvVars, enVars, acVars>>

\* Strategy 2: SSR HTML extraction
FetchViaHtml ==
    /\ sc_pc.pc = "html"
    /\ TryStrategy("html", "playwright")
    /\ UNCHANGED <<sc_snapshots, sc_history, cvVars, enVars, acVars>>

\* Strategy 3: Playwright, when ENABLE_PLAYWRIGHT is set
FetchViaPlaywright ==
    /\ sc_pc.pc = "playwright"
    /\ IF playwright_enabled(sc_pc.env)
       THEN TryStrategy("playwright", "none_left")
       ELSE sc_pc' = [sc_pc EXCEPT !.pc = "none_left"]
    /\ UNCHANGED <<sc_snapshots, sc_history, cvVars, enVars, acVars>>

\* "All scrape strategies returned 0 contracts": return []
ReturnEmpty ==
    /\ sc_pc.pc = "none_left"
    /\ sc_pc' = [sc_pc EXCEPT !.pc = "returned", !.returned = <<>>]
    /\ UNCHANGED <<sc_snapshots, sc_history, cvVars, enVars, acVars>>

NextScraper == FetchViaApi \/ FetchViaHtml \/ FetchViaPlaywright \/ ReturnEmpty

SpecScraper == InitScraper /\ [][NextScraper]_vars

\* the strategies run may use, in order
Allowed ==
    IF sc_pc.env \in {"1", "TRUE", "yes"} THEN <<"api", "html", "playwright">>
    ELSE <<"api", "html">>

\* a strategy that yields contracts
Yields(strategy) ==
    ~sc_pc.site[strategy].raises /\ sc_pc.site[strategy].contracts # <<>>

\* C29: the strategies called are a prefix of API, HTML, Playwright (the
\* last only when ENABLE_PLAYWRIGHT is set), each once; run returns the
\* contracts of the first strategy that yields any, having called none after
\* it, and the empty list when none yields any.
C29_FirstYieldingStrategy ==
    /\ Len(sc_pc.called) <= Len(Allowed)
    /\ \A k \in 1..Len(sc_pc.called) : sc_pc.called[k] = Allowed[k]
    /\ sc_pc.pc = "returned" =>
          LET yielding == {k \in 1..Len(Allowed) : Yields(Allowed[k])}
          IN  IF yielding = {}
              THEN sc_pc.returned = <<>> /\ sc_pc.called = Allowed
              ELSE /\ sc_pc.returned = sc_pc.site[Allowed[MinOfSet(yielding)]].contracts
                   /\ Len(sc_pc.called) = MinOfSet(yielding)

\* the API raised, the HTML page gave no contracts, Playwright is not
\* enabled although it would yield contracts, and run returned the empty list
C29_Witness ==
    /\ sc_pc.pc = "returned"
    /\ sc_pc.site["api"].raises
    /\ ~sc_pc.site["html"].raises
    /\ Yields("playwright")
    /\ sc_pc.env = "0"
    /\ sc_pc.called = <<"api", "html">>
    /\ sc_pc.returned = <<>>

-----------------------------------------------------------------------------
(* The ensemble forecast and the wall clock, checked under SpecEnsemble     *)

=============================================================================
